---- MODULE Spec2Model ----
(***************************************************************************)
(* Verification model of browser-use-typescript: the DOM tree constructor  *)
(* (DOMService.constructDOMTree), the clickable element collector          *)
(* (ClickableElementProcessor), the history tree processor                 *)
(* (HistoryTreeProcessor), the selector map of BrowserContext.getState     *)
(* and the run loop of the Agent.                                          *)
(*                                                                         *)
(* JavaScript objects live in an arena: a node is identified by the id of  *)
(* the raw record it was parsed from, and a reference to a node is that    *)
(* id.  An optional value (undefined / null) is the empty sequence, a      *)
(* present value v is <<v>>.  A SHA-256 digest is modelled as an           *)
(* injective image of the hashed string; the strings that are hashed are   *)
(* built exactly as the code builds them.                                  *)
(***************************************************************************)
EXTENDS Integers, Sequences, FiniteSets, TLC

(***************************************************************************)
(* Bounds of the model.                                                    *)
(***************************************************************************)
NumIds == 3
MaxChildren == 2
MaxHighlight == 1

None == <<>>
Some(v) == <<v>>

(***************************************************************************)
(* The value undefined where the code expects a string; no string of the   *)
(* page equals it.  Prop(obj, k) is the property read obj.k, which is      *)
(* undefined when obj has no member k.                                     *)
(***************************************************************************)
JsUndefined == "#undefined"

JsNull == "#null"
Prop(obj, k) == IF k \in DOMAIN obj THEN obj[k] ELSE JsUndefined

NodeIds == 0 .. (NumIds - 1)
HighlightValues == {None} \cup {Some(i) : i \in 0 .. MaxHighlight}

(***************************************************************************)
(* Sequences over S of length at most n.                                   *)
(***************************************************************************)
SeqUpTo(S, n) == UNION {[1 .. k -> S] : k \in 0 .. n}

(***************************************************************************)
(* Array.prototype.reverse.                                                *)
(***************************************************************************)
RECURSIVE Reverse(_)
Reverse(s) == IF s = <<>> THEN <<>> ELSE Append(Reverse(Tail(s)), Head(s))

(***************************************************************************)
(* Raw snapshot schema.  A raw record is null (a falsy entry), a text      *)
(* record or an element record.  The boolean flags of the schema           *)
(* (isVisible, isInteractive, isTopElement, isInViewport) are copied by    *)
(* the code without being read and are left out.                           *)
(***************************************************************************)
RawNull == [type |-> "null"]
RawText(t) == [type |-> "TEXT_NODE", text |-> t]
RawElement(tag, xp, attrs, kids, hi) ==
    [type |-> "ELEMENT", tagName |-> tag, xpath |-> xp, attributes |-> attrs,
     children |-> kids, highlightIndex |-> hi, shadowRoot |-> FALSE,
     viewport |-> None]

(***************************************************************************)
(* Object.entries(jsNodeMap): the ids of the raw table are integer-like    *)
(* keys, which JavaScript enumerates in ascending numeric order.           *)
(***************************************************************************)
RECURSIVE SortedIds(_)
SortedIds(S) ==
    IF S = {} THEN <<>>
    ELSE LET m == CHOOSE x \in S : \A y \in S : x <= y
         IN <<m>> \o SortedIds(S \ {m})

ObjectEntries(jsNodeMap) == SortedIds(DOMAIN jsNodeMap)

(***************************************************************************)
(* DOMService.parseNode: [node, childrenIds]; node is None for a falsy     *)
(* record.  A text node has no children field and no highlightIndex field. *)
(***************************************************************************)
parseNode(nodeData) ==
    IF nodeData.type = "null" THEN [node |-> None, childrenIds |-> <<>>]
    ELSE IF nodeData.type = "TEXT_NODE" THEN
        [node |-> Some([kind |-> "text", text |-> nodeData.text, parent |-> None]),
         childrenIds |-> <<>>]
    ELSE
        [node |-> Some([kind |-> "element",
                        tagName |-> nodeData.tagName,
                        xpath |-> nodeData.xpath,
                        attributes |-> nodeData.attributes,
                        children |-> <<>>,
                        highlightIndex |-> nodeData.highlightIndex,
                        shadowRoot |-> nodeData.shadowRoot,
                        parent |-> None,
                        viewportInfo |-> nodeData.viewport]),
         childrenIds |-> nodeData.children]

(***************************************************************************)
(* Function update that may extend the domain (obj[key] = value).          *)
(***************************************************************************)
Put(f, k, v) == [x \in (DOMAIN f) \cup {k} |-> IF x = k THEN v ELSE f[x]]

(***************************************************************************)
(* Variant of ConnectChildren that stops wiring at the first child id that *)
(* is not in nodeMap (break instead of continue).                          *)
(***************************************************************************)
RECURSIVE ConnectChildren_break(_, _, _, _)
ConnectChildren_break(nodeMap, id, childrenIds, i) ==
    IF i > Len(childrenIds) THEN nodeMap
    ELSE LET childId == childrenIds[i]
         IN IF childId \notin DOMAIN nodeMap
            THEN nodeMap
            ELSE LET m1 == [nodeMap EXCEPT ![childId].parent = Some(id)]
                     m2 == [m1 EXCEPT ![id].children = Append(@, childId)]
                 IN ConnectChildren_break(m2, id, childrenIds, i + 1)

(***************************************************************************)
(* The inner loop of constructDOMTree ("Connect children to parent"): a    *)
(* child id is wired only if it is already in nodeMap, that is, if its     *)
(* entry was visited before (or is) the parent's entry.                    *)
(***************************************************************************)
RECURSIVE ConnectChildren(_, _, _, _)
ConnectChildren(nodeMap, id, childrenIds, i) ==
    IF i > Len(childrenIds) THEN nodeMap
    ELSE LET childId == childrenIds[i]
         IN IF childId \notin DOMAIN nodeMap
            THEN ConnectChildren(nodeMap, id, childrenIds, i + 1)
            ELSE LET m1 == [nodeMap EXCEPT ![childId].parent = Some(id)]
                     m2 == [m1 EXCEPT ![id].children = Append(@, childId)]
                 IN ConnectChildren(m2, id, childrenIds, i + 1)

(***************************************************************************)
(* Variant of ProcessEntry that tests highlightIndex for truthiness, so    *)
(* that index 0 is not entered into the selector map.                      *)
(***************************************************************************)
ProcessEntry_truthy(st, id, nodeData) ==
    LET parsed == parseNode(nodeData)
    IN IF parsed.node = None THEN st
       ELSE LET node == parsed.node[1]
                nodeMap1 == Put(st.nodeMap, id, node)
                selectorMap1 ==
                    IF /\ node.kind = "element"
                       /\ node.highlightIndex # None
                       /\ node.highlightIndex[1] # 0
                    THEN Put(st.selectorMap, node.highlightIndex[1], id)
                    ELSE st.selectorMap
                nodeMap2 ==
                    IF node.kind = "element"
                    THEN ConnectChildren(nodeMap1, id, parsed.childrenIds, 1)
                    ELSE nodeMap1
            IN [nodeMap |-> nodeMap2, selectorMap |-> selectorMap1]

(***************************************************************************)
(* One iteration of the outer loop of constructDOMTree.                    *)
(***************************************************************************)
ProcessEntry(st, id, nodeData) ==
    LET parsed == parseNode(nodeData)
    IN IF parsed.node = None THEN st
       ELSE LET node == parsed.node[1]
                nodeMap1 == Put(st.nodeMap, id, node)
                selectorMap1 ==
                    IF node.kind = "element" /\ node.highlightIndex # None
                    THEN Put(st.selectorMap, node.highlightIndex[1], id)
                    ELSE st.selectorMap
                nodeMap2 ==
                    IF node.kind = "element"
                    THEN ConnectChildren(nodeMap1, id, parsed.childrenIds, 1)
                    ELSE nodeMap1
            IN [nodeMap |-> nodeMap2, selectorMap |-> selectorMap1]

RECURSIVE ProcessAllNodes(_, _, _, _)
ProcessAllNodes(st, jsNodeMap, entries, i) ==
    IF i > Len(entries) THEN st
    ELSE ProcessAllNodes(ProcessEntry(st, entries[i], jsNodeMap[entries[i]]),
                         jsNodeMap, entries, i + 1)

EmptyMap == [x \in {} |-> x]

(***************************************************************************)
(* Variant of constructDOMTree that only tests that the root id is in      *)
(* nodeMap, not that the node is an element.                               *)
(***************************************************************************)
constructDOMTree_anyRoot(evalPageArg) ==
    LET jsNodeMap == evalPageArg.map
        jsRootId == evalPageArg.rootId
        st == ProcessAllNodes([nodeMap |-> EmptyMap, selectorMap |-> EmptyMap],
                              jsNodeMap, ObjectEntries(jsNodeMap), 1)
    IN IF jsRootId \notin DOMAIN st.nodeMap
       THEN [status |-> "error", message |-> "Failed to parse HTML to dictionary"]
       ELSE [status |-> "ok", root |-> jsRootId,
             nodeMap |-> st.nodeMap, selectorMap |-> st.selectorMap]

(***************************************************************************)
(* DOMService.constructDOMTree: the returned pair [root, selectorMap]      *)
(* together with the objects it references (nodeMap), or the thrown        *)
(* error.                                                                  *)
(***************************************************************************)
constructDOMTree(evalPageArg) ==
    LET jsNodeMap == evalPageArg.map
        jsRootId == evalPageArg.rootId
        st == ProcessAllNodes([nodeMap |-> EmptyMap, selectorMap |-> EmptyMap],
                              jsNodeMap, ObjectEntries(jsNodeMap), 1)
    IN IF jsRootId \notin DOMAIN st.nodeMap \/ st.nodeMap[jsRootId].kind # "element"
       THEN [status |-> "error", message |-> "Failed to parse HTML to dictionary"]
       ELSE [status |-> "ok", root |-> jsRootId,
             nodeMap |-> st.nodeMap, selectorMap |-> st.selectorMap]

(***************************************************************************)
(* The raw tables of the model.  The tag, xpath and attributes of a        *)
(* record are fixed by its id; kind, highlightIndex and child-id list      *)
(* vary freely.                                                            *)
(***************************************************************************)
TagOf(id) == IF id = 0 THEN "body" ELSE IF id = 1 THEN "button" ELSE "div"
XpathOf(id) == IF id = 0 THEN "/html/body"
               ELSE IF id = 1 THEN "/html/body/button" ELSE "/html/body/div"
AttrsOf(id) == IF id = 1 THEN << <<"id", "go">> >> ELSE <<>>

ChildLists == SeqUpTo(NodeIds, MaxChildren)

RawRecords(id) ==
    {RawNull, RawText("t")}
    \cup {RawElement(TagOf(id), XpathOf(id), AttrsOf(id), kids, hi) :
            kids \in ChildLists, hi \in HighlightValues}

(***************************************************************************)
(* All partial tables over the ids below n whose records are drawn from    *)
(* recs[id].                                                               *)
(***************************************************************************)
RECURSIVE TablesOver(_, _)
TablesOver(n, recs) ==
    IF n = 0 THEN {EmptyMap}
    ELSE LET rest == TablesOver(n - 1, recs)
         IN rest \cup {Put(t, n - 1, rec) : t \in rest, rec \in recs[n - 1]}

AnyTables(n) == TablesOver(n, [id \in 0 .. (n - 1) |-> RawRecords(id)])

(***************************************************************************)
(* Views of a construction result d (status "ok").                         *)
(***************************************************************************)
ElementsOf(d) == {id \in DOMAIN d.nodeMap : d.nodeMap[id].kind = "element"}
TextsOf(d) == {id \in DOMAIN d.nodeMap : d.nodeMap[id].kind = "text"}
ChildrenOf(d, id) == IF d.nodeMap[id].kind = "element" THEN d.nodeMap[id].children
                     ELSE <<>>
Range(f) == {f[x] : x \in DOMAIN f}

(***************************************************************************)
(* The nodes that can be reached from the nodes of S over children lists   *)
(* (S included).                                                           *)
(***************************************************************************)
RECURSIVE ReachableFrom(_, _)
ReachableFrom(d, S) ==
    LET step == S \cup UNION {Range(ChildrenOf(d, id)) : id \in S}
    IN IF step = S THEN S ELSE ReachableFrom(d, step)

TreeNodes(d) == ReachableFrom(d, {d.root})
ProperDescendants(d, id) == ReachableFrom(d, Range(ChildrenOf(d, id)))

(***************************************************************************)
(* The node reached from id after n steps over parent links (None when a   *)
(* node without parent was passed).                                        *)
(***************************************************************************)
RECURSIVE ParentSteps(_, _, _)
ParentSteps(d, id, n) ==
    IF n = 0 THEN Some(id)
    ELSE IF d.nodeMap[id].parent = None THEN None
    ELSE ParentSteps(d, d.nodeMap[id].parent[1], n - 1)

ParentChainEnds(d, id) == ParentSteps(d, id, Cardinality(DOMAIN d.nodeMap) + 1) = None

AncestorsOrSelf(d, id) ==
    {a \in DOMAIN d.nodeMap :
        \E n \in 0 .. Cardinality(DOMAIN d.nodeMap) : ParentSteps(d, id, n) = Some(a)}

(***************************************************************************)
(* a comes before b in the pre-order of the tree: a is a proper ancestor   *)
(* of b, or a lies in the subtree of an earlier sibling than b does.       *)
(***************************************************************************)
PreorderBefore(d, a, b) ==
    /\ a # b
    /\ \/ a \in AncestorsOrSelf(d, b)
       \/ \E p \in ElementsOf(d) :
            \E k1, k2 \in 1 .. Len(d.nodeMap[p].children) :
                /\ k1 < k2
                /\ d.nodeMap[p].children[k1] \in AncestorsOrSelf(d, a)
                /\ d.nodeMap[p].children[k2] \in AncestorsOrSelf(d, b)

HasHighlight(d, id) ==
    d.nodeMap[id].kind = "element" /\ d.nodeMap[id].highlightIndex # None

(***************************************************************************)
(* The raw snapshot in hand.                                               *)
(***************************************************************************)
IsElementRecord(rec) == rec.type = "ELEMENT"
RootResolvesToElement(ep) ==
    ep.rootId \in DOMAIN ep.map /\ IsElementRecord(ep.map[ep.rootId])

(***************************************************************************)
(* s with its i-th entry deleted.                                          *)
(***************************************************************************)
DeleteAt(s, i) == [k \in 1 .. (Len(s) - 1) |-> IF k < i THEN s[k] ELSE s[k + 1]]

(***************************************************************************)
(* s is t with some entries deleted, the order of the others kept.         *)
(***************************************************************************)
RECURSIVE IsSubsequence(_, _)
IsSubsequence(s, t) ==
    IF s = <<>> THEN TRUE
    ELSE IF t = <<>> THEN FALSE
    ELSE IF Head(s) = Head(t) THEN IsSubsequence(Tail(s), Tail(t))
    ELSE IsSubsequence(s, Tail(t))

(***************************************************************************)
(* Variant of GetClickableFrom that does not descend below an element that *)
(* carries a highlightIndex.                                               *)
(***************************************************************************)
RECURSIVE GetClickableFrom_leaf(_, _, _)
GetClickableFrom_leaf(d, id, i) ==
    LET kids == d.nodeMap[id].children
    IN IF i > Len(kids) THEN <<>>
       ELSE LET child == kids[i]
            IN IF d.nodeMap[child].kind = "text"
               THEN GetClickableFrom_leaf(d, id, i + 1)
               ELSE (IF d.nodeMap[child].highlightIndex # None
                     THEN <<child>>
                     ELSE GetClickableFrom_leaf(d, child, 1))
                    \o GetClickableFrom_leaf(d, id, i + 1)

(***************************************************************************)
(* ClickableElementProcessor.getClickableElements applied to the element   *)
(* id of the construction result d: GetClickableFrom is the loop over the  *)
(* children from position i on.                                            *)
(***************************************************************************)
RECURSIVE GetClickableFrom(_, _, _)
GetClickableFrom(d, id, i) ==
    LET kids == d.nodeMap[id].children
    IN IF i > Len(kids) THEN <<>>
       ELSE LET child == kids[i]
            IN IF d.nodeMap[child].kind = "text"
               THEN GetClickableFrom(d, id, i + 1)
               ELSE (IF d.nodeMap[child].highlightIndex # None THEN <<child>> ELSE <<>>)
                    \o GetClickableFrom(d, child, 1)
                    \o GetClickableFrom(d, id, i + 1)

getClickableElements(d, domElement) == GetClickableFrom(d, domElement, 1)

(***************************************************************************)
(* HistoryTreeProcessor._hashString: the hex SHA-256 digest of str || '',  *)
(* modelled as an injective image of the digested string (no string of the *)
(* page holds a parenthesis).                                              *)
(***************************************************************************)
_hashString(str) == "sha256(" \o (IF str = JsUndefined THEN "" ELSE str) \o ")"

(***************************************************************************)
(* Array.prototype.join.                                                   *)
(***************************************************************************)
RECURSIVE Join(_, _)
Join(strs, sep) ==
    IF strs = <<>> THEN ""
    ELSE IF Len(strs) = 1 THEN strs[1]
    ELSE strs[1] \o sep \o Join(Tail(strs), sep)

(***************************************************************************)
(* HistoryTreeProcessor._getParentBranchPath: WalkUp is the while loop     *)
(* (the elements that have a parent, from domElement upwards), which is    *)
(* then reversed and mapped to tag names.                                  *)
(***************************************************************************)
RECURSIVE WalkUp(_, _)
WalkUp(d, currentElement) ==
    IF d.nodeMap[currentElement].parent = None THEN <<>>
    ELSE <<currentElement>> \o WalkUp(d, d.nodeMap[currentElement].parent[1])

_getParentBranchPath(d, domElement) ==
    LET parents == Reverse(WalkUp(d, domElement))
    IN [i \in 1 .. Len(parents) |-> d.nodeMap[parents[i]].tagName]

_parentBranchPathHash(parentBranchPath) == _hashString(Join(parentBranchPath, "/"))

(***************************************************************************)
(* Variant of _attributesHash that digests the key/value pairs regardless  *)
(* of their iteration order.                                               *)
(***************************************************************************)
_attributesHash_unordered(attributes) ==
    LET pairs == Range(attributes)
        sorted == CHOOSE s \in [1 .. Cardinality(pairs) -> pairs] : Range(s) = pairs
    IN _hashString(Join([i \in 1 .. Len(sorted) |->
                            sorted[i][1] \o "=" \o sorted[i][2]], ""))

(***************************************************************************)
(* HistoryTreeProcessor._attributesHash: attributes is the sequence of     *)
(* [key, value] pairs in the iteration order of the attribute object.      *)
(***************************************************************************)
_attributesHash(attributes) ==
    _hashString(Join([i \in 1 .. Len(attributes) |->
                        attributes[i][1] \o "=" \o attributes[i][2]], ""))

_xpathHash(xpath) == _hashString(xpath)

(***************************************************************************)
(* _hashDomHistoryElement raises a TypeError when the record has no        *)
(* entireParentBranchPath (join of undefined) or no attributes             *)
(* (Object.entries of undefined); an undefined xpath is digested by        *)
(* _hashString as the empty string.                                        *)
(***************************************************************************)
_hashDomHistoryElementThrows(domHistoryElement) ==
    \/ "entireParentBranchPath" \notin DOMAIN domHistoryElement
    \/ "attributes" \notin DOMAIN domHistoryElement

_hashDomHistoryElement(domHistoryElement) ==
    [branchPathHash |-> _parentBranchPathHash(domHistoryElement.entireParentBranchPath),
     attributesHash |-> _attributesHash(domHistoryElement.attributes),
     xpathHash |-> _xpathHash(Prop(domHistoryElement, "xpath"))]

(***************************************************************************)
(* Variant of _hashDomElement whose xpath component also digests the       *)
(* highlightIndex of the element.                                          *)
(***************************************************************************)
_hashDomElement_withIndex(d, domElement) ==
    [branchPathHash |-> _parentBranchPathHash(_getParentBranchPath(d, domElement)),
     attributesHash |-> _attributesHash(d.nodeMap[domElement].attributes),
     xpathHash |-> _hashString(d.nodeMap[domElement].xpath \o "#"
                                \o ToString(d.nodeMap[domElement].highlightIndex))]

_hashDomElement(d, domElement) ==
    [branchPathHash |-> _parentBranchPathHash(_getParentBranchPath(d, domElement)),
     attributesHash |-> _attributesHash(d.nodeMap[domElement].attributes),
     xpathHash |-> _xpathHash(d.nodeMap[domElement].xpath)]

(***************************************************************************)
(* ClickableElementProcessor.hashDomElement: the digest of the composite   *)
(* string of the three component digests, which the class computes with    *)
(* its own copies of _getParentBranchPath, _parentBranchPathHash,          *)
(* _attributesHash, _xpathHash and _hashString.                            *)
(***************************************************************************)
hashDomElement(d, domElement) ==
    LET parentBranchPath == _getParentBranchPath(d, domElement)
        branchPathHash == _parentBranchPathHash(parentBranchPath)
        attributesHash == _attributesHash(d.nodeMap[domElement].attributes)
        xpathHash == _xpathHash(d.nodeMap[domElement].xpath)
    IN _hashString(branchPathHash \o "-" \o attributesHash \o "-" \o xpathHash)

(***************************************************************************)
(* ClickableElementProcessor.getClickableElementsHashes: new Set(array of  *)
(* the hashes of the clickable elements).                                  *)
(***************************************************************************)
RECURSIVE NewSet(_)
NewSet(array) ==
    IF array = <<>> THEN {} ELSE {Head(array)} \cup NewSet(Tail(array))

getClickableElementsHashes(d, domElement) ==
    LET clickableElements == getClickableElements(d, domElement)
    IN NewSet([i \in 1 .. Len(clickableElements) |->
                hashDomElement(d, clickableElements[i])])

(***************************************************************************)
(* Variant of convertDomElementToHistoryElement that records the ancestor  *)
(* tags without the tag of the element itself.                             *)
(***************************************************************************)
convertDomElementToHistoryElement_noSelf(d, domElement) ==
    LET path == _getParentBranchPath(d, domElement)
    IN [tagName |-> d.nodeMap[domElement].tagName,
        xpath |-> d.nodeMap[domElement].xpath,
        highlightIndex |-> d.nodeMap[domElement].highlightIndex,
        entireParentBranchPath |-> SubSeq(path, 1, Len(path) - 1),
        attributes |-> d.nodeMap[domElement].attributes,
        shadowRoot |-> d.nodeMap[domElement].shadowRoot,
        cssSelector |-> None,
        pageCoordinates |-> None,
        viewportCoordinates |-> None,
        viewportInfo |-> d.nodeMap[domElement].viewportInfo]

(***************************************************************************)
(* HistoryTreeProcessor.convertDomElementToHistoryElement.  The            *)
(* highlightIndex of the record is null (None) when the element has none;  *)
(* cssSelector is always undefined; parseNode sets neither pageCoordinates *)
(* nor viewportCoordinates.                                                *)
(***************************************************************************)
convertDomElementToHistoryElement(d, domElement) ==
    [tagName |-> d.nodeMap[domElement].tagName,
     xpath |-> d.nodeMap[domElement].xpath,
     highlightIndex |-> d.nodeMap[domElement].highlightIndex,
     entireParentBranchPath |-> _getParentBranchPath(d, domElement),
     attributes |-> d.nodeMap[domElement].attributes,
     shadowRoot |-> d.nodeMap[domElement].shadowRoot,
     cssSelector |-> None,
     pageCoordinates |-> None,
     viewportCoordinates |-> None,
     viewportInfo |-> d.nodeMap[domElement].viewportInfo]

(***************************************************************************)
(* The three-component test of findHistoryElementInTree and of             *)
(* compareHistoryElementAndDomElement.                                     *)
(***************************************************************************)
HashesEqual(h1, h2) ==
    /\ h1.branchPathHash = h2.branchPathHash
    /\ h1.attributesHash = h2.attributesHash
    /\ h1.xpathHash = h2.xpathHash

(***************************************************************************)
(* Variant of compareHistoryElementAndDomElement that leaves the branch    *)
(* path hash out of the comparison.                                        *)
(***************************************************************************)
compareHistoryElementAndDomElement_noBranch(domHistoryElement, d, domElement) ==
    /\ _hashDomHistoryElement(domHistoryElement).attributesHash
            = _hashDomElement(d, domElement).attributesHash
    /\ _hashDomHistoryElement(domHistoryElement).xpathHash
            = _hashDomElement(d, domElement).xpathHash

compareHistoryElementAndDomElement(domHistoryElement, d, domElement) ==
    HashesEqual(_hashDomHistoryElement(domHistoryElement), _hashDomElement(d, domElement))

(***************************************************************************)
(* Variant of processNode that tests every element, with or without a      *)
(* highlightIndex.                                                         *)
(***************************************************************************)
RECURSIVE processNode_anyNode(_, _, _, _)
processNode_anyNode(hashed, d, node, i) ==
    IF i = 0
    THEN IF HashesEqual(_hashDomElement(d, node), hashed)
         THEN Some(node)
         ELSE processNode_anyNode(hashed, d, node, 1)
    ELSE IF i > Len(d.nodeMap[node].children) THEN None
    ELSE LET child == d.nodeMap[node].children[i]
             result == IF d.nodeMap[child].kind = "text" THEN None
                       ELSE processNode_anyNode(hashed, d, child, 0)
         IN IF result # None THEN result
            ELSE processNode_anyNode(hashed, d, node, i + 1)

(***************************************************************************)
(* Variant of processNode that compares the xpath hash only.               *)
(***************************************************************************)
RECURSIVE processNode_xpathOnly(_, _, _, _)
processNode_xpathOnly(hashed, d, node, i) ==
    IF i = 0
    THEN IF /\ d.nodeMap[node].highlightIndex # None
            /\ _hashDomElement(d, node).xpathHash = hashed.xpathHash
         THEN Some(node)
         ELSE processNode_xpathOnly(hashed, d, node, 1)
    ELSE IF i > Len(d.nodeMap[node].children) THEN None
    ELSE LET child == d.nodeMap[node].children[i]
             result == IF d.nodeMap[child].kind = "text" THEN None
                       ELSE processNode_xpathOnly(hashed, d, child, 0)
         IN IF result # None THEN result
            ELSE processNode_xpathOnly(hashed, d, node, i + 1)

(***************************************************************************)
(* Variant of processNode that visits the children of a node from the      *)
(* last to the first.                                                      *)
(***************************************************************************)
RECURSIVE processNode_lastChildFirst(_, _, _, _)
processNode_lastChildFirst(hashed, d, node, i) ==
    IF i = 0
    THEN IF /\ d.nodeMap[node].highlightIndex # None
            /\ HashesEqual(_hashDomElement(d, node), hashed)
         THEN Some(node)
         ELSE processNode_lastChildFirst(hashed, d, node, 1)
    ELSE IF i > Len(d.nodeMap[node].children) THEN None
    ELSE LET child == d.nodeMap[node].children[Len(d.nodeMap[node].children) - i + 1]
             result == IF d.nodeMap[child].kind = "text" THEN None
                       ELSE processNode_lastChildFirst(hashed, d, child, 0)
         IN IF result # None THEN result
            ELSE processNode_lastChildFirst(hashed, d, node, i + 1)

(***************************************************************************)
(* processNode of findHistoryElementInTree.  Position i = 0 is the test of *)
(* the node itself, i >= 1 the loop over its children from the i-th on.    *)
(* The result is None (undefined) or the matching node.                    *)
(***************************************************************************)
RECURSIVE processNode(_, _, _, _)
processNode(hashed, d, node, i) ==
    IF i = 0
    THEN IF /\ d.nodeMap[node].highlightIndex # None
            /\ HashesEqual(_hashDomElement(d, node), hashed)
         THEN Some(node)
         ELSE processNode(hashed, d, node, 1)
    ELSE IF i > Len(d.nodeMap[node].children) THEN None
    ELSE LET child == d.nodeMap[node].children[i]
             result == IF d.nodeMap[child].kind = "text" THEN None
                       ELSE processNode(hashed, d, child, 0)
         IN IF result # None THEN result
            ELSE processNode(hashed, d, node, i + 1)

findHistoryElementInTree(domHistoryElement, d, tree) ==
    processNode(_hashDomHistoryElement(domHistoryElement), d, tree, 0)

(***************************************************************************)
(* Field-for-field JSON serialization of a history record: a member whose  *)
(* value is undefined is left out, null is written as null.  The document  *)
(* is the function from the member names written to their JSON values.     *)
(***************************************************************************)
JsonNull == [t |-> "null"]
JsonValue(kind, v) == [t |-> kind, v |-> v]

JsonStringify(h) ==
    LET members ==
            [tagName |-> Some(JsonValue("string", h.tagName)),
             xpath |-> IF h.xpath = JsUndefined THEN None
                       ELSE Some(JsonValue("string", h.xpath)),
             highlightIndex |-> IF h.highlightIndex = None THEN Some(JsonNull)
                                ELSE Some(JsonValue("number", h.highlightIndex[1])),
             entireParentBranchPath |-> Some(JsonValue("array", h.entireParentBranchPath)),
             attributes |-> Some(JsonValue("object", h.attributes)),
             shadowRoot |-> Some(JsonValue("boolean", h.shadowRoot)),
             cssSelector |-> IF h.cssSelector = None THEN None
                             ELSE Some(JsonValue("string", h.cssSelector[1])),
             pageCoordinates |-> IF h.pageCoordinates = None THEN None
                                 ELSE Some(JsonValue("object", h.pageCoordinates[1])),
             viewportCoordinates |-> IF h.viewportCoordinates = None THEN None
                                     ELSE Some(JsonValue("object", h.viewportCoordinates[1])),
             viewportInfo |-> IF h.viewportInfo = None THEN None
                              ELSE Some(JsonValue("object", h.viewportInfo[1]))]
    IN [k \in {m \in DOMAIN members : members[m] # None} |-> members[k][1]]

(***************************************************************************)
(* JSON.parse of such a document, read as a DOMHistoryElement: a member    *)
(* that is not in the document reads as undefined, null as null.  The      *)
(* parsed object has the members tagName, xpath, entireParentBranchPath,   *)
(* attributes and shadowRoot only if the document has them.                *)
(***************************************************************************)
JsonOptional(doc, k) ==
    IF k \notin DOMAIN doc THEN None
    ELSE IF doc[k].t = "null" THEN None
    ELSE Some(doc[k].v)

JsonParse(doc) ==
    LET optional == {"highlightIndex", "cssSelector", "pageCoordinates",
                     "viewportCoordinates", "viewportInfo"}
        plain == {"tagName", "xpath", "entireParentBranchPath", "attributes",
                  "shadowRoot"}
    IN [k \in optional \cup (plain \cap DOMAIN doc) |->
            IF k \in optional THEN JsonOptional(doc, k) ELSE doc[k].v]

(***************************************************************************)
(* Raw tables that describe a forest: every id is listed as a child by at  *)
(* most one record, and never by itself.  lister[c] is the record that     *)
(* lists c; a record lists its children by ascending or by descending id.  *)
(* Entries may be visited before or after the records that list them.      *)
(***************************************************************************)
TreeSize == 4

TreeIds == 0 .. (TreeSize - 1)

TreeKinds == {"text", "plain", "highlighted"}

TreeRecord(id, kind, kids) ==
    IF kind = "text" THEN RawText("t")
    ELSE RawElement(TagOf(id), XpathOf(id), AttrsOf(id), kids,
                    IF kind = "highlighted" THEN Some(id) ELSE None)

ForestTables(ids) ==
    {[id \in ids |->
        LET asc == SortedIds({c \in ids : lister[c] = Some(id)})
        IN TreeRecord(id, kinds[id], IF desc THEN Reverse(asc) ELSE asc)] :
     desc \in BOOLEAN,
     kinds \in [ids -> TreeKinds],
     lister \in {l \in [ids -> {None} \cup {Some(q) : q \in ids}] :
                    \A c \in ids : l[c] # Some(c)}}

(***************************************************************************)
(* Raw snapshots for the history operations: a body root with one or two   *)
(* elements below it whose tag, xpath, attributes and highlightIndex vary  *)
(* independently.  In the star and chain snapshots the entries of the      *)
(* children precede the entry of their parent; in the pair snapshots the   *)
(* entry of the root comes first.                                          *)
(***************************************************************************)
HistTags == {"button", "div"}
HistVariants ==
    {[xpath |-> "/html/body/button", attributes |-> << <<"id", "go">> >>],
     [xpath |-> "/html/body/button", attributes |-> <<>>],
     [xpath |-> "/html/body/div", attributes |-> << <<"id", "go">> >>]}
HistHighlights == {None, Some(0)}

InnerRecords(kids) ==
    {RawElement(tag, v.xpath, v.attributes, kids, hi) :
        tag \in HistTags, v \in HistVariants, hi \in HistHighlights}
LeafRecords == InnerRecords(<<>>) \cup {RawText("t")}
RootRecords(kids) ==
    {RawElement("body", "/html/body", <<>>, kids, hi) : hi \in HistHighlights}

StarSnapshots(kids) ==
    {[map |-> (0 :> a) @@ (1 :> b) @@ (2 :> r), rootId |-> 2] :
        a \in LeafRecords, b \in LeafRecords, r \in RootRecords(kids)}
ChainSnapshots ==
    {[map |-> (0 :> a) @@ (1 :> b) @@ (2 :> r), rootId |-> 2] :
        a \in LeafRecords, b \in InnerRecords(<<0>>), r \in RootRecords(<<1>>)}
PairSnapshots ==
    {[map |-> (0 :> r) @@ (1 :> a), rootId |-> 0] :
        a \in LeafRecords, r \in RootRecords(<<1>>)}

HistSnapshots ==
    StarSnapshots(<<0, 1>>) \cup StarSnapshots(<<1, 0>>) \cup ChainSnapshots
        \cup PairSnapshots

(***************************************************************************)
(* The snapshots of the page after it has rendered again.                  *)
(***************************************************************************)
RerenderSnapshots ==
    {[map |-> (0 :> a) @@ (1 :> b) @@ (2 :> r), rootId |-> 2] :
        a \in InnerRecords(<<>>), b \in InnerRecords(<<>>),
        r \in {RawElement("body", "/html/body", <<>>, <<0, 1>>, None)}}
    \cup
    {[map |-> (0 :> a) @@ (1 :> b) @@ (2 :> r), rootId |-> 2] :
        a \in InnerRecords(<<>>), b \in InnerRecords(<<0>>),
        r \in {RawElement("body", "/html/body", <<>>, <<1>>, None)}}

(***************************************************************************)
(* The tag names on the parent links from the top of the tree down to id,  *)
(* the parentless top itself left out.                                     *)
(***************************************************************************)
Depth(d, id) == Cardinality(AncestorsOrSelf(d, id)) - 1
TagPath(d, id) ==
    [k \in 1 .. Depth(d, id) |->
        d.nodeMap[ParentSteps(d, id, Depth(d, id) - k)[1]].tagName]

(***************************************************************************)
(* The tag names from the top of the tree (the node without parent) down   *)
(* to id, both included.                                                   *)
(***************************************************************************)
RootTagPath(d, id) ==
    [k \in 1 .. (Depth(d, id) + 1) |->
        d.nodeMap[ParentSteps(d, id, Depth(d, id) + 1 - k)[1]].tagName]

(***************************************************************************)
(* State: the raw snapshot in hand (evalPage), the result of its           *)
(* construction (dom), the history record kept by the caller (hist) and    *)
(* the result of the last operation on the tree (out); the fields of the   *)
(* BrowserContext object (context) and of the Agent object (agent); the    *)
(* MessageManager of the agent (messageManager) and the calls of           *)
(* Memory.createProceduralMemory that are awaiting (memory); the Browser   *)
(* with its BrowserContext and the Playwright objects they created         *)
(* (browser); the Controller with its registry (controller).               *)
(***************************************************************************)
VARIABLES evalPage, dom, hist, out, context, agent, messageManager, memory,
          browser, controller

vars == <<evalPage, dom, hist, out, context, agent, messageManager, memory,
          browser, controller>>

NoDom == [status |-> "none"]

(***************************************************************************)
(* The fields of a BrowserContext after construction that getState reads   *)
(* or writes: private selectorMap = {}.                                    *)
(***************************************************************************)
NewBrowserContext == [selectorMap |-> EmptyMap]

NoAgent == [pc |-> "none"]

(***************************************************************************)
(* The value of a variable whose object a specification does not           *)
(* construct.                                                              *)
(***************************************************************************)
NoObject == [pc |-> "none"]

Init ==
    /\ evalPage = None
    /\ dom = NoDom
    /\ hist = None
    /\ out = None
    /\ context = NewBrowserContext
    /\ agent = NoAgent
    /\ messageManager = NoObject
    /\ memory = NoObject
    /\ browser = NoObject
    /\ controller = NoObject

(***************************************************************************)
(* Construction over arbitrary raw tables.                                 *)
(***************************************************************************)
InitAny == Init

CaptureAny ==
    /\ evalPage = None
    /\ \E t \in AnyTables(NumIds), r \in NodeIds :
        /\ evalPage' = Some([map |-> t, rootId |-> r])
        /\ dom' = constructDOMTree([map |-> t, rootId |-> r])
    /\ UNCHANGED <<hist, out>>
    /\ UNCHANGED <<context, agent>>
    /\ UNCHANGED <<messageManager, memory, browser, controller>>

NextAny == CaptureAny

SpecAny == InitAny /\ [][NextAny]_vars

(***************************************************************************)
(* Construction over forest tables, followed by the collector.             *)
(***************************************************************************)
InitTree == Init

CaptureTree ==
    /\ evalPage = None
    /\ \E t \in ForestTables(TreeIds), r \in TreeIds :
        /\ evalPage' = Some([map |-> t, rootId |-> r])
        /\ dom' = constructDOMTree([map |-> t, rootId |-> r])
    /\ UNCHANGED <<hist, out>>
    /\ UNCHANGED <<context, agent>>
    /\ UNCHANGED <<messageManager, memory, browser, controller>>

(***************************************************************************)
(* ClickableElementProcessor.getClickableElements(root).                   *)
(***************************************************************************)
Collect ==
    /\ dom.status = "ok"
    /\ out = None
    /\ out' = Some([op |-> "collect", result |-> getClickableElements(dom, dom.root)])
    /\ UNCHANGED <<evalPage, dom, hist>>
    /\ UNCHANGED <<context, agent>>
    /\ UNCHANGED <<messageManager, memory, browser, controller>>

NextTree == CaptureTree \/ Collect

SpecTree == InitTree /\ [][NextTree]_vars

(***************************************************************************)
(* The history operations: a capture, a history record taken from one of   *)
(* its elements, optionally saved and loaded again as JSON, and lookups    *)
(* against the tree of that capture or of a later one.                     *)
(***************************************************************************)
Capture ==
    /\ evalPage = None
    /\ hist = None
    /\ \E ep \in HistSnapshots :
        /\ evalPage' = Some(ep)
        /\ dom' = constructDOMTree(ep)
    /\ UNCHANGED <<hist, out>>
    /\ UNCHANGED <<context, agent>>
    /\ UNCHANGED <<messageManager, memory, browser, controller>>

(***************************************************************************)
(* HistoryTreeProcessor.convertDomElementToHistoryElement(e).  from and    *)
(* src remember the element the record was taken from: its id while its    *)
(* tree is in hand, its tag path (without and with the top of the tree),   *)
(* attributes, xpath and fingerprint.                                      *)
(***************************************************************************)
Convert ==
    /\ dom.status = "ok"
    /\ hist = None
    /\ out = None
    /\ \E e \in ElementsOf(dom) :
        hist' = Some([rec |-> convertDomElementToHistoryElement(dom, e),
                      from |-> Some(e),
                      src |-> [path |-> TagPath(dom, e),
                               rootPath |-> RootTagPath(dom, e),
                               attributes |-> dom.nodeMap[e].attributes,
                               xpath |-> dom.nodeMap[e].xpath,
                               hash |-> _hashDomElement(dom, e)],
                      loaded |-> FALSE])
    /\ UNCHANGED <<evalPage, dom, out>>
    /\ UNCHANGED <<context, agent>>
    /\ UNCHANGED <<messageManager, memory, browser, controller>>

(***************************************************************************)
(* The caller saves the record as JSON and loads it again.                 *)
(***************************************************************************)
SaveAndLoad ==
    /\ hist # None
    /\ ~hist[1].loaded
    /\ out = None
    /\ hist' = Some([hist[1] EXCEPT !.rec = JsonParse(JsonStringify(@)),
                                    !.loaded = TRUE])
    /\ UNCHANGED <<evalPage, dom, out>>
    /\ UNCHANGED <<context, agent>>
    /\ UNCHANGED <<messageManager, memory, browser, controller>>

(***************************************************************************)
(* The page renders again: the tree of the earlier capture is discarded,   *)
(* the history record is kept by the caller.                               *)
(***************************************************************************)
Rerender ==
    /\ evalPage # None
    /\ hist # None
    /\ hist[1].from # None
    /\ out = None
    /\ evalPage' = None
    /\ dom' = NoDom
    /\ hist' = Some([hist[1] EXCEPT !.from = None])
    /\ UNCHANGED out
    /\ UNCHANGED <<context, agent>>
    /\ UNCHANGED <<messageManager, memory, browser, controller>>

(***************************************************************************)
(* The capture of the page that has rendered again.                        *)
(***************************************************************************)
Recapture ==
    /\ evalPage = None
    /\ hist # None
    /\ \E ep \in RerenderSnapshots :
        /\ evalPage' = Some(ep)
        /\ dom' = constructDOMTree(ep)
    /\ UNCHANGED <<hist, out>>
    /\ UNCHANGED <<context, agent>>
    /\ UNCHANGED <<messageManager, memory, browser, controller>>

(***************************************************************************)
(* HistoryTreeProcessor.compareHistoryElementAndDomElement(record, e):     *)
(* its result, or the error raised while the record is hashed.             *)
(***************************************************************************)
Compare ==
    /\ dom.status = "ok"
    /\ hist # None
    /\ out = None
    /\ \E e \in ElementsOf(dom) :
        out' = Some(IF _hashDomHistoryElementThrows(hist[1].rec)
                    THEN [op |-> "compare", arg |-> e, error |-> "TypeError"]
                    ELSE [op |-> "compare", arg |-> e,
                          result |-> compareHistoryElementAndDomElement(hist[1].rec,
                                                                        dom, e)])
    /\ UNCHANGED <<evalPage, dom, hist>>
    /\ UNCHANGED <<context, agent>>
    /\ UNCHANGED <<messageManager, memory, browser, controller>>

(***************************************************************************)
(* HistoryTreeProcessor.findHistoryElementInTree(record, root): its        *)
(* result, or the error raised while the record is hashed.                 *)
(***************************************************************************)
Find ==
    /\ dom.status = "ok"
    /\ hist # None
    /\ out = None
    /\ out' = Some(IF _hashDomHistoryElementThrows(hist[1].rec)
                   THEN [op |-> "find", error |-> "TypeError"]
                   ELSE [op |-> "find",
                         result |-> findHistoryElementInTree(hist[1].rec, dom,
                                                             dom.root)])
    /\ UNCHANGED <<evalPage, dom, hist>>
    /\ UNCHANGED <<context, agent>>
    /\ UNCHANGED <<messageManager, memory, browser, controller>>

(***************************************************************************)
(* ClickableElementProcessor.getClickableElementsHashes(root).             *)
(***************************************************************************)
HashSet ==
    /\ dom.status = "ok"
    /\ out = None
    /\ out' = Some([op |-> "hashSet",
                    result |-> getClickableElementsHashes(dom, dom.root)])
    /\ UNCHANGED <<evalPage, dom, hist>>
    /\ UNCHANGED <<context, agent>>
    /\ UNCHANGED <<messageManager, memory, browser, controller>>

Next ==
    Capture \/ Convert \/ SaveAndLoad \/ Rerender \/ Recapture \/ Compare \/ Find
        \/ Collect \/ HashSet

Spec == Init /\ [][Next]_vars

(***************************************************************************)
(* C2: construction fails, returning neither a tree nor a selector map,    *)
(* whenever rootId is absent from the raw table or resolves to a text (or  *)
(* null) record, and succeeds with that element as root whenever rootId    *)
(* resolves to an element record.                                          *)
(***************************************************************************)
C2_RootMustBeElement ==
    evalPage # None =>
        LET ep == evalPage[1]
        IN /\ RootResolvesToElement(ep) =>
                /\ dom.status = "ok"
                /\ dom.root = ep.rootId
                /\ dom.nodeMap[dom.root].kind = "element"
           /\ ~RootResolvesToElement(ep) =>
                /\ dom.status = "error"
                /\ DOMAIN dom = {"status", "message"}

C2_Witness ==
    /\ evalPage # None
    /\ evalPage[1].rootId \in DOMAIN evalPage[1].map
    /\ evalPage[1].map[evalPage[1].rootId].type = "TEXT_NODE"
    /\ \E id \in DOMAIN evalPage[1].map : IsElementRecord(evalPage[1].map[id])
    /\ dom.status = "error"

C7_ChildrenParentConsistent ==
    dom.status = "ok" =>
        /\ \A p \in TreeNodes(dom) : \A i \in 1 .. Len(ChildrenOf(dom, p)) :
                dom.nodeMap[ChildrenOf(dom, p)[i]].parent = Some(p)
        /\ \A p, q \in TreeNodes(dom) :
                \A i \in 1 .. Len(ChildrenOf(dom, p)), j \in 1 .. Len(ChildrenOf(dom, q)) :
                    ChildrenOf(dom, p)[i] = ChildrenOf(dom, q)[j] => (p = q /\ i = j)

(***************************************************************************)
(* C8: every returned tree is acyclic and rooted at one element: no node   *)
(* is its own descendant, the parent links of every node end at a node     *)
(* without parent, and the returned root has no parent.                    *)
(***************************************************************************)
C8_AcyclicRooted ==
    dom.status = "ok" =>
        /\ dom.nodeMap[dom.root].parent = None
        /\ \A id \in TreeNodes(dom) :
                /\ id \notin ProperDescendants(dom, id)
                /\ ParentChainEnds(dom, id)

(***************************************************************************)
(* C9: after a successful construction the keys of the selector map are    *)
(* exactly the defined highlightIndex values of the element records of the *)
(* raw table, key i maps to an element node whose highlightIndex is i, an  *)
(* element without highlightIndex is no value of the map, and a text node  *)
(* is no value of the map and has no children field.                       *)
(***************************************************************************)
C9_SelectorMapKeys ==
    dom.status = "ok" =>
        LET ep == evalPage[1]
        IN /\ DOMAIN dom.selectorMap =
                {ep.map[id].highlightIndex[1] :
                    id \in {x \in DOMAIN ep.map : /\ IsElementRecord(ep.map[x])
                                                   /\ ep.map[x].highlightIndex # None}}
           /\ \A i \in DOMAIN dom.selectorMap :
                /\ dom.selectorMap[i] \in ElementsOf(dom)
                /\ dom.nodeMap[dom.selectorMap[i]].highlightIndex = Some(i)
           /\ \A id \in ElementsOf(dom) :
                dom.nodeMap[id].highlightIndex = None => id \notin Range(dom.selectorMap)
           /\ \A id \in TextsOf(dom) :
                /\ id \notin Range(dom.selectorMap)
                /\ "children" \notin DOMAIN dom.nodeMap[id]
                /\ \A c \in DOMAIN dom.nodeMap : dom.nodeMap[c].parent # Some(id)

C9_Witness ==
    /\ dom.status = "ok"
    /\ DOMAIN dom.selectorMap = {1}
    /\ \E id \in TextsOf(dom) : dom.nodeMap[id].parent # None
    /\ \E id \in ElementsOf(dom) : dom.nodeMap[id].highlightIndex = None

(***************************************************************************)
(* C10: collect(root) returns every element with a defined highlightIndex  *)
(* below root, each exactly once and nothing else (no text node, no        *)
(* element without highlightIndex), in pre-order: an element before its    *)
(* descendants, siblings' subtrees in children order.                      *)
(***************************************************************************)
C10_CollectPreorder ==
    (out # None /\ out[1].op = "collect") =>
        LET s == out[1].result
        IN /\ Range(s) = {e \in ProperDescendants(dom, dom.root) : HasHighlight(dom, e)}
           /\ Len(s) = Cardinality(Range(s))
           /\ \A i, j \in 1 .. Len(s) : i < j => PreorderBefore(dom, s[i], s[j])

C10_Witness ==
    /\ (out # None /\ out[1].op = "collect")
    /\ Len(out[1].result) = 2
    /\ \E a \in ElementsOf(dom) :
        /\ a # dom.root
        /\ ~HasHighlight(dom, a)
        /\ dom.nodeMap[out[1].result[1]].parent = Some(a)
        /\ dom.nodeMap[a].parent = Some(dom.root)
        /\ dom.nodeMap[out[1].result[2]].parent = Some(dom.root)

C10_WitnessNestedBelowHighlighted ==
    /\ (out # None /\ out[1].op = "collect")
    /\ Len(out[1].result) = 3
    /\ dom.nodeMap[out[1].result[2]].parent = Some(out[1].result[1])
    /\ dom.nodeMap[out[1].result[3]].parent = Some(dom.root)

(***************************************************************************)
(* The raw table of the concrete scenario of the specification.            *)
(***************************************************************************)
ScenarioPage ==
    [map |-> (0 :> RawElement("body", "/html/body", <<>>, <<1>>, None))
             @@ (1 :> RawElement("button", "/html/body/button",
                                 << <<"id", "go">> >>, <<>>, Some(0))),
     rootId |-> 0]

IsOut(op) == out # None /\ out[1].op = op

(***************************************************************************)
(* C1: for the scenario table, construction returns a root body with       *)
(* exactly one child button and the selector map {0: button},              *)
(* collect(root) is [button], and findInTree of the button's history       *)
(* record against the same tree returns the button.                        *)
(***************************************************************************)
C1_Scenario ==
    evalPage = Some(ScenarioPage) =>
        /\ dom.status = "ok"
        /\ dom.nodeMap[dom.root].tagName = "body"
        /\ dom.nodeMap[dom.root].children = <<1>>
        /\ dom.nodeMap[1].tagName = "button"
        /\ dom.selectorMap = (0 :> 1)
        /\ IsOut("collect") => out[1].result = <<1>>
        /\ (IsOut("find") /\ hist[1].from = Some(1)) => out[1].result = Some(1)

(***************************************************************************)
(* The elements of the tree in hand that are counterparts of the element   *)
(* the history record was taken from: same tag path, same attributes in    *)
(* the same order, same xpath.                                             *)
(***************************************************************************)
Counterparts ==
    {e \in TreeNodes(dom) \cap ElementsOf(dom) :
        /\ TagPath(dom, e) = hist[1].src.path
        /\ dom.nodeMap[e].attributes = hist[1].src.attributes
        /\ dom.nodeMap[e].xpath = hist[1].src.xpath}

(***************************************************************************)
(* C4 as claimed: for an element e of an earlier tree and every            *)
(* counterpart e' in the tree of a later capture, the fingerprints are     *)
(* equal and findInTree of e's history record returns exactly e'.          *)
(***************************************************************************)
C4_FindReturnsCounterpart ==
    (IsOut("find") /\ hist[1].from = None) =>
        \A e2 \in Counterparts :
            /\ _hashDomElement(dom, e2) = hist[1].src.hash
            /\ out[1].result = Some(e2)

(***************************************************************************)
(* C4 as amended: the fingerprints of e and of every counterpart e' are    *)
(* equal; a counterpart without highlightIndex is never returned; if e'    *)
(* carries a highlightIndex, findInTree returns a node with a              *)
(* highlightIndex and the fingerprint of e' that is e' itself or precedes  *)
(* e' in pre-order, and it returns e' itself when no such node precedes    *)
(* e'.                                                                     *)
(***************************************************************************)
C4_FindReturnsFirstCounterpart ==
    (IsOut("find") /\ hist[1].from = None) =>
        \A e2 \in Counterparts :
            /\ _hashDomElement(dom, e2) = hist[1].src.hash
            /\ ~HasHighlight(dom, e2) => out[1].result # Some(e2)
            /\ HasHighlight(dom, e2) =>
                /\ out[1].result # None
                /\ HasHighlight(dom, out[1].result[1])
                /\ out[1].result[1] \in TreeNodes(dom)
                /\ _hashDomElement(dom, out[1].result[1]) = _hashDomElement(dom, e2)
                /\ \/ out[1].result[1] = e2
                   \/ PreorderBefore(dom, out[1].result[1], e2)
                /\ (\A m \in TreeNodes(dom) :
                        (/\ HasHighlight(dom, m)
                         /\ _hashDomElement(dom, m) = _hashDomElement(dom, e2))
                            => ~PreorderBefore(dom, m, e2))
                    => out[1].result = Some(e2)

C4_Witness ==
    /\ IsOut("find")
    /\ hist[1].from = None
    /\ \E e1, e2 \in Counterparts :
        /\ PreorderBefore(dom, e1, e2)
        /\ ~HasHighlight(dom, e1)
        /\ out[1].result = Some(e2)

(***************************************************************************)
(* The nodes of the tree in hand that carry a highlightIndex and whose     *)
(* three hash components equal those of the history record.                *)
(***************************************************************************)
RecordMatches ==
    {n \in TreeNodes(dom) :
        /\ HasHighlight(dom, n)
        /\ HashesEqual(_hashDomElement(dom, n), _hashDomHistoryElement(hist[1].rec))}

(***************************************************************************)
(* C5: a node returned by findInTree lies in the tree under root, carries  *)
(* a highlightIndex and has all three hash components equal to the         *)
(* record's; not-found is returned exactly when the tree (root included)   *)
(* has no such node.                                                       *)
(***************************************************************************)
C5_FindNeverWrong ==
    IsOut("find") =>
        /\ out[1].result # None => out[1].result[1] \in RecordMatches
        /\ out[1].result = None <=> RecordMatches = {}

(***************************************************************************)
(* Not-found although a node with a highlightIndex agrees with the record  *)
(* in xpath and attributes, and a node without highlightIndex in all       *)
(* three components.                                                       *)
(***************************************************************************)
C5_Witness ==
    /\ IsOut("find")
    /\ out[1].result = None
    /\ \E n, m \in TreeNodes(dom) :
        LET h == _hashDomHistoryElement(hist[1].rec)
        IN /\ HasHighlight(dom, n)
           /\ _hashDomElement(dom, n).xpathHash = h.xpathHash
           /\ _hashDomElement(dom, n).attributesHash = h.attributesHash
           /\ ~HasHighlight(dom, m)
           /\ m # dom.root
           /\ HashesEqual(_hashDomElement(dom, m), h)

C5_WitnessRoot ==
    /\ IsOut("find")
    /\ out[1].result = Some(dom.root)

(***************************************************************************)
(* C6: a history record taken from an element e, saved as JSON and loaded  *)
(* again, matches e (round-trip law), whether or not e has a               *)
(* highlightIndex, coordinates or attributes.                              *)
(***************************************************************************)
C6_RoundTripMatches ==
    (IsOut("compare") /\ hist[1].loaded /\ hist[1].from = Some(out[1].arg)) =>
        out[1].result = TRUE

C6_Witness ==
    /\ IsOut("compare")
    /\ hist[1].loaded
    /\ hist[1].from = Some(out[1].arg)
    /\ out[1].result = TRUE
    /\ dom.nodeMap[out[1].arg].highlightIndex = None
    /\ dom.nodeMap[out[1].arg].attributes = <<>>
    /\ Len(hist[1].rec.entireParentBranchPath) = 2
    /\ hist[1].rec.pageCoordinates = None

(***************************************************************************)
(* The tree d with the highlightIndex of element e replaced by hi.         *)
(***************************************************************************)
WithHighlight(d, e, hi) == [d EXCEPT !.nodeMap[e].highlightIndex = hi]

(***************************************************************************)
(* The tree d with every defined highlightIndex i replaced by i + k (the   *)
(* same elements carry an index, under other values).                      *)
(***************************************************************************)
ShiftHighlights(d, k) ==
    [d EXCEPT !.nodeMap =
        [id \in DOMAIN d.nodeMap |->
            IF d.nodeMap[id].kind = "element" /\ d.nodeMap[id].highlightIndex # None
            THEN [d.nodeMap[id] EXCEPT !.highlightIndex = Some(@[1] + k)]
            ELSE d.nodeMap[id]]]

(***************************************************************************)
(* C11: the three hash components are a function of tag path, attribute    *)
(* list and xpath only.  An element of a later capture with the tag path,  *)
(* attributes and xpath of the element the record was taken from has its   *)
(* three components, whatever the highlightIndex of either; replacing the  *)
(* highlightIndex of an element leaves its components unchanged; the       *)
(* result of elementsMatch depends neither on the highlightIndex stored in *)
(* the record nor on that of the element, and the result of findInTree     *)
(* depends neither on the highlightIndex stored in the record nor on the   *)
(* index values carried by the candidates.                                 *)
(***************************************************************************)
C11_FingerprintIgnoresHighlight ==
    (dom.status = "ok" /\ hist # None) =>
        /\ \A e \in Counterparts : _hashDomElement(dom, e) = hist[1].src.hash
        /\ \A e \in ElementsOf(dom), hi \in HighlightValues :
                _hashDomElement(WithHighlight(dom, e, hi), e) = _hashDomElement(dom, e)
        /\ IsOut("compare") =>
                \A hi, hi2 \in HighlightValues :
                    compareHistoryElementAndDomElement(
                        [hist[1].rec EXCEPT !.highlightIndex = hi],
                        WithHighlight(dom, out[1].arg, hi2), out[1].arg) = out[1].result
        /\ IsOut("find") =>
                \A hi \in HighlightValues, k \in 0 .. MaxHighlight :
                    findHistoryElementInTree(
                        [hist[1].rec EXCEPT !.highlightIndex = hi],
                        ShiftHighlights(dom, k), dom.root) = out[1].result

(***************************************************************************)
(* A record taken from an element without highlightIndex is compared with  *)
(* its counterpart in a later capture, which carries one.                  *)
(***************************************************************************)
C11_Witness ==
    /\ IsOut("compare")
    /\ hist[1].from = None
    /\ out[1].arg \in Counterparts
    /\ hist[1].rec.highlightIndex = None
    /\ dom.nodeMap[out[1].arg].highlightIndex = Some(0)
    /\ out[1].result = TRUE

(***************************************************************************)
(* Attribute objects for the attribute hash: at most MaxAttrs pairs with   *)
(* distinct keys, in their iteration order, the values over an alphabet    *)
(* that contains "=" and the empty string.                                 *)
(***************************************************************************)
MaxAttrs == 2

AttrKeys == {"a", "b"}
AttrValues == {"", "1", "2", "1b=2"}

AttrMaps ==
    {m \in SeqUpTo(AttrKeys \X AttrValues, MaxAttrs) :
        \A i, j \in 1 .. Len(m) : m[i][1] = m[j][1] => i = j}

(***************************************************************************)
(* Snapshots of a body with two div elements that have the same xpath and  *)
(* carry a highlightIndex each, and whose attribute objects vary           *)
(* independently.                                                          *)
(***************************************************************************)
AttrSnapshots ==
    {[map |-> (0 :> RawElement("div", "/html/body/div", a, <<>>, Some(0)))
              @@ (1 :> RawElement("div", "/html/body/div", b, <<>>, Some(1)))
              @@ (2 :> RawElement("body", "/html/body", <<>>, <<0, 1>>, None)),
      rootId |-> 2] : a \in AttrMaps, b \in AttrMaps}

InitAttr == Init

CaptureAttr ==
    /\ evalPage = None
    /\ hist = None
    /\ \E ep \in AttrSnapshots :
        /\ evalPage' = Some(ep)
        /\ dom' = constructDOMTree(ep)
    /\ UNCHANGED <<hist, out>>
    /\ UNCHANGED <<context, agent>>
    /\ UNCHANGED <<messageManager, memory, browser, controller>>

NextAttr == CaptureAttr \/ Convert \/ Compare \/ Find

SpecAttr == InitAttr /\ [][NextAttr]_vars

(***************************************************************************)
(* The attribute object as a set of key/value pairs; two attribute objects *)
(* list the same pairs in another order.                                   *)
(***************************************************************************)
PairsOf(attributes) == Range(attributes)

Reordered(a, b) == PairsOf(a) = PairsOf(b) /\ a # b

(***************************************************************************)
(* C12: when the element compared and the element the record was taken     *)
(* from carry the same attribute key/value pairs, at least two, in         *)
(* different iteration orders, their attributesHash differ and the record  *)
(* does not match the element.                                             *)
(***************************************************************************)
C12_OrderChangesAttributesHash ==
    (IsOut("compare") /\ hist[1].from # None) =>
        LET a == dom.nodeMap[hist[1].from[1]].attributes
            b == dom.nodeMap[out[1].arg].attributes
        IN (Reordered(a, b) /\ Len(a) >= 2) =>
            /\ _attributesHash(a) # _attributesHash(b)
            /\ _hashDomHistoryElement(hist[1].rec).attributesHash
                    # _hashDomElement(dom, out[1].arg).attributesHash
            /\ out[1].result = FALSE

C12_Witness ==
    /\ IsOut("compare")
    /\ hist[1].from = Some(0)
    /\ out[1].arg = 1
    /\ dom.nodeMap[0].attributes = << <<"a", "1b=2">>, <<"b", "">> >>
    /\ dom.nodeMap[1].attributes = << <<"b", "">>, <<"a", "1b=2">> >>
    /\ out[1].result = FALSE

(***************************************************************************)
(* C13: elementsMatch(record, element) is true exactly when the record's   *)
(* branchPathHash, attributesHash and xpathHash each equal the element's;  *)
(* it is false as soon as one component differs; and findInTree agrees     *)
(* with elementsMatch on every candidate: the node it returns matches the  *)
(* record, and when it returns not-found no node of the tree that carries  *)
(* a highlightIndex matches the record.                                    *)
(***************************************************************************)
C13_CompositeEquality ==
    /\ IsOut("compare") =>
            LET h == _hashDomHistoryElement(hist[1].rec)
                g == _hashDomElement(dom, out[1].arg)
            IN /\ out[1].result = (/\ h.branchPathHash = g.branchPathHash
                                   /\ h.attributesHash = g.attributesHash
                                   /\ h.xpathHash = g.xpathHash)
               /\ h.branchPathHash # g.branchPathHash => out[1].result = FALSE
               /\ h.attributesHash # g.attributesHash => out[1].result = FALSE
               /\ h.xpathHash # g.xpathHash => out[1].result = FALSE
    /\ IsOut("find") =>
            /\ out[1].result # None =>
                    compareHistoryElementAndDomElement(hist[1].rec, dom, out[1].result[1])
            /\ out[1].result = None =>
                    \A n \in TreeNodes(dom) :
                        HasHighlight(dom, n) =>
                            ~compareHistoryElementAndDomElement(hist[1].rec, dom, n)

(***************************************************************************)
(* The record and the element agree in attributes and xpath and differ in  *)
(* the branch path only.                                                   *)
(***************************************************************************)
C13_Witness ==
    /\ IsOut("compare")
    /\ out[1].result = FALSE
    /\ LET h == _hashDomHistoryElement(hist[1].rec)
           g == _hashDomElement(dom, out[1].arg)
       IN /\ h.branchPathHash # g.branchPathHash
          /\ h.attributesHash = g.attributesHash
          /\ h.xpathHash = g.xpathHash

C13_WitnessAttributesOnly ==
    /\ IsOut("compare")
    /\ out[1].result = FALSE
    /\ LET h == _hashDomHistoryElement(hist[1].rec)
           g == _hashDomElement(dom, out[1].arg)
       IN /\ h.branchPathHash = g.branchPathHash
          /\ h.attributesHash # g.attributesHash
          /\ h.xpathHash = g.xpathHash

C13_WitnessXpathOnly ==
    /\ IsOut("compare")
    /\ out[1].result = FALSE
    /\ LET h == _hashDomHistoryElement(hist[1].rec)
           g == _hashDomElement(dom, out[1].arg)
       IN /\ h.branchPathHash = g.branchPathHash
          /\ h.attributesHash = g.attributesHash
          /\ h.xpathHash # g.xpathHash

(***************************************************************************)
(* The attribute object read as a map: its keys, and the value of a key.   *)
(***************************************************************************)
KeysOf(attributes) == {attributes[i][1] : i \in 1 .. Len(attributes)}

ValueOf(attributes, k) ==
    attributes[CHOOSE i \in 1 .. Len(attributes) : attributes[i][1] = k][2]

MapsDiffer(a, b) ==
    \/ KeysOf(a) # KeysOf(b)
    \/ \E k \in KeysOf(a) : ValueOf(a, k) # ValueOf(b, k)

(***************************************************************************)
(* C14: when the attribute map of the element compared and that of the     *)
(* element the record was taken from differ, in their key sets or in the   *)
(* value of a key, their attributesHash differ and the record does not     *)
(* match the element.                                                      *)
(***************************************************************************)
C14_AttributeContentSensitive ==
    (IsOut("compare") /\ hist[1].from # None) =>
        LET a == dom.nodeMap[hist[1].from[1]].attributes
            b == dom.nodeMap[out[1].arg].attributes
        IN MapsDiffer(a, b) =>
            /\ _attributesHash(a) # _attributesHash(b)
            /\ out[1].result = FALSE

(***************************************************************************)
(* Snapshots of a chain of three elements whose tags vary: the root is an  *)
(* html or a body element.                                                 *)
(***************************************************************************)
RootTags == {"html", "body"}
ChainTags == {"div", "span"}

RootSnapshots ==
    {[map |-> (0 :> RawElement(t0, "/x", <<>>, <<>>, Some(0)))
              @@ (1 :> RawElement(t1, "/x", <<>>, <<0>>, None))
              @@ (2 :> RawElement(t2, "/x", <<>>, <<1>>, None)),
      rootId |-> 2] : t0 \in ChainTags, t1 \in ChainTags, t2 \in RootTags}

InitRoots == Init

CaptureRoots ==
    /\ evalPage = None
    /\ \E ep \in RootSnapshots :
        /\ evalPage' = Some(ep)
        /\ dom' = constructDOMTree(ep)
    /\ UNCHANGED <<hist, out>>
    /\ UNCHANGED <<context, agent>>
    /\ UNCHANGED <<messageManager, memory, browser, controller>>

NextRoots == CaptureRoots \/ Convert \/ Rerender \/ Compare

SpecRoots == InitRoots /\ [][NextRoots]_vars

(***************************************************************************)
(* C15: for the element e a record was taken from and an element e2 of the *)
(* same or of a later tree: if the tag names from the root of the tree     *)
(* down to the element differ between e and e2, their branchPathHash       *)
(* differ, and if they are the same, their branchPathHash are equal.       *)
(***************************************************************************)
C15_BranchPathSensitive ==
    IsOut("compare") =>
        LET g == _hashDomElement(dom, out[1].arg)
        IN /\ RootTagPath(dom, out[1].arg) # hist[1].src.rootPath =>
                g.branchPathHash # hist[1].src.hash.branchPathHash
           /\ RootTagPath(dom, out[1].arg) = hist[1].src.rootPath =>
                g.branchPathHash = hist[1].src.hash.branchPathHash

(***************************************************************************)
(* C16: the record taken from an element e has the tagName, xpath,         *)
(* attributes, shadowRoot and viewport information of e, the               *)
(* highlightIndex of e or null, as entireParentBranchPath the tag names    *)
(* from the root of the tree down to e, and neither text nor children;     *)
(* the tree is as it was constructed.                                      *)
(***************************************************************************)
C16_HistoryRecordFields ==
    (dom.status = "ok" /\ hist # None /\ hist[1].from # None /\ ~hist[1].loaded) =>
        LET e == dom.nodeMap[hist[1].from[1]]
            rec == hist[1].rec
        IN /\ rec.tagName = e.tagName
           /\ rec.xpath = e.xpath
           /\ rec.attributes = e.attributes
           /\ rec.shadowRoot = e.shadowRoot
           /\ rec.viewportInfo = e.viewportInfo
           /\ rec.highlightIndex = e.highlightIndex
           /\ rec.entireParentBranchPath = RootTagPath(dom, hist[1].from[1])
           /\ DOMAIN rec \cap {"text", "children", "parent"} = {}
           /\ dom = constructDOMTree(evalPage[1])

(***************************************************************************)
(* Incomplete input.  Snapshots of a body with two div elements whose      *)
(* xpath is undefined, empty or set and whose attributes are empty or set; *)
(* and history records as a caller reads them from stored JSON documents   *)
(* that lack the member attributes, the member xpath, or both.             *)
(***************************************************************************)
IncompleteXpaths == {JsUndefined, "", "/html/body/div"}
IncompleteAttrs == {<<>>, << <<"id", "go">> >>}

IncompleteSnapshots ==
    {[map |-> (0 :> RawElement("div", x0, a0, <<>>, Some(0)))
              @@ (1 :> RawElement("div", x1, a1, <<>>, Some(1)))
              @@ (2 :> RawElement("body", "/html/body", <<>>, <<0, 1>>, None)),
      rootId |-> 2] :
        x0 \in IncompleteXpaths, x1 \in IncompleteXpaths,
        a0 \in IncompleteAttrs, a1 \in IncompleteAttrs}

StoredRecords ==
    {[tagName |-> "div", xpath |-> x, highlightIndex |-> hi,
      entireParentBranchPath |-> <<"div">>, attributes |-> a,
      shadowRoot |-> FALSE, cssSelector |-> None, pageCoordinates |-> None,
      viewportCoordinates |-> None, viewportInfo |-> None] :
        x \in IncompleteXpaths \ {JsUndefined}, a \in IncompleteAttrs,
        hi \in HistHighlights}

Without(f, ks) == [k \in DOMAIN f \ ks |-> f[k]]

InitIncomplete == Init

CaptureIncomplete ==
    /\ evalPage = None
    /\ \E ep \in IncompleteSnapshots :
        /\ evalPage' = Some(ep)
        /\ dom' = constructDOMTree(ep)
    /\ UNCHANGED <<hist, out>>
    /\ UNCHANGED <<context, agent>>
    /\ UNCHANGED <<messageManager, memory, browser, controller>>

(***************************************************************************)
(* The caller reads a history record from a stored JSON document in which  *)
(* some of the members attributes and xpath are missing.                   *)
(***************************************************************************)
LoadStored ==
    /\ hist = None
    /\ out = None
    /\ \E h \in StoredRecords, missing \in SUBSET {"attributes", "xpath"} :
        hist' = Some([rec |-> JsonParse(Without(JsonStringify(h), missing)),
                      from |-> None,
                      src |-> None,
                      loaded |-> TRUE])
    /\ UNCHANGED <<evalPage, dom, out>>
    /\ UNCHANGED <<context, agent>>
    /\ UNCHANGED <<messageManager, memory, browser, controller>>

NextIncomplete == CaptureIncomplete \/ LoadStored \/ Convert \/ Compare \/ Find

SpecIncomplete == InitIncomplete /\ [][NextIncomplete]_vars

(***************************************************************************)
(* The record with its missing attributes read as the empty object and its *)
(* missing xpath as the empty string.                                      *)
(***************************************************************************)
FilledIn(rec) ==
    [k \in DOMAIN rec \cup {"attributes", "xpath"} |->
        IF k \in DOMAIN rec THEN rec[k]
        ELSE IF k = "attributes" THEN <<>> ELSE ""]

(***************************************************************************)
(* C17: elementsMatch and findInTree raise no error on a record that lacks *)
(* attributes or xpath and return what they return for the record with the *)
(* missing field empty; an element without xpath has the fingerprint of    *)
(* the same element with the empty xpath.                                  *)
(***************************************************************************)
C17_TotalOnIncompleteInput ==
    /\ dom.status = "ok" =>
            \A e \in ElementsOf(dom) :
                _hashDomElement(dom, e)
                    = _hashDomElement(
                        [dom EXCEPT !.nodeMap[e].xpath =
                            IF @ = JsUndefined THEN "" ELSE @], e)
    /\ (IsOut("compare") \/ IsOut("find")) =>
            /\ "error" \notin DOMAIN out[1]
            /\ IsOut("compare") =>
                    out[1].result = compareHistoryElementAndDomElement(
                                        FilledIn(hist[1].rec), dom, out[1].arg)
            /\ IsOut("find") =>
                    out[1].result = findHistoryElementInTree(
                                        FilledIn(hist[1].rec), dom, dom.root)

(***************************************************************************)
(* The composite string branchPathHash-attributesHash-xpathHash of the     *)
(* three fingerprint components that elementsMatch compares.               *)
(***************************************************************************)
CompositeString(d, e) ==
    _hashDomElement(d, e).branchPathHash \o "-"
        \o _hashDomElement(d, e).attributesHash \o "-"
        \o _hashDomElement(d, e).xpathHash

(***************************************************************************)
(* C19: hashSet(root) is the set of the composite strings                  *)
(* branchPathHash-attributesHash-xpathHash of the elements of              *)
(* collect(root).                                                          *)
(***************************************************************************)
C19_HashSetOfComposites ==
    IsOut("hashSet") =>
        out[1].result =
            {CompositeString(dom, e) : e \in Range(getClickableElements(dom, dom.root))}

(***************************************************************************)
(* BrowserContext.getState.  A page outcome is what one call meets: no     *)
(* current page, a page whose evaluation throws, or the value the          *)
(* evaluation returns (null, an object without map, an object with map).   *)
(***************************************************************************)
NoPage == [kind |-> "noPage"]
EvaluateThrows == [kind |-> "throws"]
EvaluateReturns(domTree) == [kind |-> "value", domTree |-> domTree]

(***************************************************************************)
(* The entry getState stores for a raw record; the flags isVisible and     *)
(* isInteractive are left out as in the raw schema.                        *)
(***************************************************************************)
SelectorEntry(nodeData) ==
    [tagName |-> nodeData.tagName, attributes |-> nodeData.attributes]

(***************************************************************************)
(* The loop of getState over Object.entries(domTree.map).  Reading         *)
(* highlightIndex of a null record throws; the catch of getState keeps     *)
(* the entries stored so far.  A text record has no highlightIndex.        *)
(***************************************************************************)
RECURSIVE PopulateSelectorMap(_, _, _, _)
PopulateSelectorMap(selectorMap, map, entries, i) ==
    IF i > Len(entries) THEN selectorMap
    ELSE LET typedNodeData == map[entries[i]]
         IN IF typedNodeData.type = "null" THEN selectorMap
            ELSE IF /\ "highlightIndex" \in DOMAIN typedNodeData
                    /\ typedNodeData.highlightIndex # None
            THEN PopulateSelectorMap(
                     Put(selectorMap, typedNodeData.highlightIndex[1],
                         SelectorEntry(typedNodeData)),
                     map, entries, i + 1)
            ELSE PopulateSelectorMap(selectorMap, map, entries, i + 1)

(***************************************************************************)
(* The value of this.selectorMap when getState returns.  this.selectorMap  *)
(* is assigned {} only inside if (domTree && domTree.map).                 *)
(***************************************************************************)
getStateSelectorMap(this, page) ==
    IF page.kind = "noPage" \/ page.kind = "throws" THEN this.selectorMap
    ELSE IF page.domTree = None \/ "map" \notin DOMAIN page.domTree[1]
    THEN this.selectorMap
    ELSE PopulateSelectorMap(EmptyMap, page.domTree[1].map,
                             ObjectEntries(page.domTree[1].map), 1)

(***************************************************************************)
(* The BrowserState getState returns: without a page only selector_map,    *)
(* otherwise url, title and tabs as well (not modelled further).           *)
(***************************************************************************)
getState(this, page) ==
    IF page.kind = "noPage"
    THEN [selector_map |-> this.selectorMap]
    ELSE [url |-> "url", selector_map |-> getStateSelectorMap(this, page)]

(***************************************************************************)
(* Captures of a page with at most two raw records, whose highlight        *)
(* indices, kinds and presence vary.                                       *)
(***************************************************************************)
ContextIds == 0 .. 1

ContextRecords(id) ==
    {RawNull, RawText("t")}
    \cup {RawElement(TagOf(id), XpathOf(id), AttrsOf(id), <<>>, hi) :
            hi \in HighlightValues}

ContextTables == TablesOver(2, [id \in ContextIds |-> ContextRecords(id)])

PageOutcomes ==
    {NoPage, EvaluateThrows, EvaluateReturns(None),
     EvaluateReturns(Some([rootId |-> 0]))}
    \cup {EvaluateReturns(Some([map |-> t, rootId |-> 0])) : t \in ContextTables}

InitContext == Init

(***************************************************************************)
(* One call of BrowserContext.getState; out keeps the page outcome the     *)
(* call met next to the state it returned.                                 *)
(***************************************************************************)
GetState ==
    \E page \in PageOutcomes :
        /\ context' = [context EXCEPT !.selectorMap = getStateSelectorMap(context, page)]
        /\ out' = Some([op |-> "getState", page |-> page,
                        result |-> getState(context, page)])
        /\ UNCHANGED <<evalPage, dom, hist, agent>>
        /\ UNCHANGED <<messageManager, memory, browser, controller>>

(***************************************************************************)
(* One call of DOMService.getClickableElements on a page whose evaluation  *)
(* returns a table: buildDOMTree and constructDOMTree.                     *)
(***************************************************************************)
BuildDOMTree ==
    \E t \in ContextTables :
        /\ evalPage' = Some([map |-> t, rootId |-> 0])
        /\ dom' = constructDOMTree([map |-> t, rootId |-> 0])
        /\ UNCHANGED <<hist, out, context, agent>>
        /\ UNCHANGED <<messageManager, memory, browser, controller>>

NextContext == GetState \/ BuildDOMTree

SpecContext == InitContext /\ [][NextContext]_vars

(***************************************************************************)
(* The raw table of the capture a page outcome stands for: empty when the  *)
(* capture delivered none.                                                 *)
(***************************************************************************)
RawTableOf(page) ==
    IF /\ page.kind = "value"
       /\ page.domTree # None
       /\ "map" \in DOMAIN page.domTree[1]
    THEN page.domTree[1].map
    ELSE EmptyMap

(***************************************************************************)
(* C18: the selector map exposed for the latest capture contains only      *)
(* entries derived from that capture's raw table, whatever captures came   *)
(* before it and also when the capture's evaluation throws or returns no   *)
(* node map: the map getState returns has, under every key, the entry of   *)
(* a record of the latest table with that highlightIndex, and the map      *)
(* constructDOMTree returns has, under every key, the node of such a       *)
(* record.                                                                 *)
(***************************************************************************)
C18_SelectorMapRebuilt ==
    /\ IsOut("getState") =>
        \A hi \in DOMAIN out[1].result.selector_map :
            \E id \in DOMAIN RawTableOf(out[1].page) :
                LET nodeData == RawTableOf(out[1].page)[id]
                IN /\ nodeData.type = "ELEMENT"
                   /\ nodeData.highlightIndex = Some(hi)
                   /\ out[1].result.selector_map[hi] = SelectorEntry(nodeData)
    /\ dom.status = "ok" =>
        \A hi \in DOMAIN dom.selectorMap :
            /\ dom.selectorMap[hi] \in DOMAIN evalPage[1].map
            /\ evalPage[1].map[dom.selectorMap[hi]].type = "ELEMENT"
            /\ evalPage[1].map[dom.selectorMap[hi]].highlightIndex = Some(hi)

(***************************************************************************)
(* The Agent of agent/service.ts.  The fields of agent are those of        *)
(* Agent.state that run and step read or write (n_steps, paused, stopped,  *)
(* last_result, and history_done for state.history.is_done()), the         *)
(* argument max_steps of the call of run, the number of calls of step in   *)
(* that call (calls, which stops counting at MaxCalls) and the position    *)
(* of the call of run (pc): "constructed" before the call, "while" at the  *)
(* test of the loop, "step" at await this.step(step_info), "returned"      *)
(* after return this.state.history.                                        *)
(***************************************************************************)
MaxSteps == 3
MaxCalls == 4

(***************************************************************************)
(* The state after new Agent(...): injected_agent_state when given,        *)
(* otherwise n_steps 1, not paused, not stopped, an empty history.         *)
(***************************************************************************)
ServiceNewState == [n_steps |-> 1, paused |-> FALSE, stopped |-> FALSE,
                    last_result |-> "null", history_done |-> FALSE]

InjectedAgentStates ==
    [n_steps : 0 .. MaxSteps, paused : BOOLEAN, stopped : BOOLEAN,
     last_result : {"null"}, history_done : BOOLEAN]

ServiceConstructed(state) ==
    [pc |-> "constructed", n_steps |-> state.n_steps, paused |-> state.paused,
     stopped |-> state.stopped, last_result |-> state.last_result,
     history_done |-> state.history_done, max_steps |-> 0, calls |-> 0]

InitService ==
    /\ evalPage = None
    /\ dom = NoDom
    /\ hist = None
    /\ out = None
    /\ context = NewBrowserContext
    /\ messageManager = NoObject
    /\ memory = NoObject
    /\ browser = NoObject
    /\ controller = NoObject
    /\ agent \in {ServiceConstructed(st) : st \in {ServiceNewState} \cup InjectedAgentStates}

(***************************************************************************)
(* Agent.run(max_steps) up to the loop: paused and stopped are cleared.    *)
(***************************************************************************)
ServiceRun ==
    /\ agent.pc = "constructed"
    /\ \E max_steps \in 0 .. MaxSteps :
        agent' = [agent EXCEPT !.paused = FALSE, !.stopped = FALSE,
                               !.max_steps = max_steps, !.pc = "while"]
    /\ UNCHANGED <<evalPage, dom, hist, out, context>>
    /\ UNCHANGED <<messageManager, memory, browser, controller>>

(***************************************************************************)
(* One test of while (n_steps < max_steps && !stopped): the loop is left   *)
(* and the history returned, or the agent is paused and the test is        *)
(* repeated after a second, or step is called.                             *)
(***************************************************************************)
ServiceWhile ==
    /\ agent.pc = "while"
    /\ agent' =
        IF ~(agent.n_steps < agent.max_steps /\ ~agent.stopped)
        THEN [agent EXCEPT !.pc = "returned"]
        ELSE IF agent.paused THEN agent
        ELSE [agent EXCEPT !.pc = "step"]
    /\ UNCHANGED <<evalPage, dom, hist, out, context>>
    /\ UNCHANGED <<messageManager, memory, browser, controller>>

(***************************************************************************)
(* Agent.step and the rest of the loop body.  step stores the empty        *)
(* result list unless _getBrowserState throws, which step catches; it      *)
(* writes neither n_steps nor stopped nor the history.  The loop is left   *)
(* when state.history.is_done().                                           *)
(***************************************************************************)
ServiceStep ==
    /\ agent.pc = "step"
    /\ \E browserStateThrows \in BOOLEAN :
        agent' = [agent EXCEPT
                    !.last_result = IF browserStateThrows THEN @ ELSE "empty",
                    !.calls = IF @ < MaxCalls THEN @ + 1 ELSE @,
                    !.pc = IF agent.history_done THEN "returned" ELSE "while"]
    /\ UNCHANGED <<evalPage, dom, hist, out, context>>
    /\ UNCHANGED <<messageManager, memory, browser, controller>>

(***************************************************************************)
(* The class has no pause, resume or stop method; its field state is       *)
(* public, and the owner of the agent may assign paused and stopped while  *)
(* run is awaiting.                                                        *)
(***************************************************************************)
ServiceSetPaused ==
    /\ agent.pc \in {"while", "step"}
    /\ \E b \in BOOLEAN : agent' = [agent EXCEPT !.paused = b]
    /\ UNCHANGED <<evalPage, dom, hist, out, context>>
    /\ UNCHANGED <<messageManager, memory, browser, controller>>

ServiceSetStopped ==
    /\ agent.pc \in {"while", "step"}
    /\ agent' = [agent EXCEPT !.stopped = TRUE]
    /\ UNCHANGED <<evalPage, dom, hist, out, context>>
    /\ UNCHANGED <<messageManager, memory, browser, controller>>

NextService ==
    ServiceRun \/ ServiceWhile \/ ServiceStep \/ ServiceSetPaused \/ ServiceSetStopped

SpecService == InitService /\ [][NextService]_vars

(***************************************************************************)
(* The event loop resumes an awaiting call: step returns once called, and  *)
(* the test of the loop, which a paused agent repeats every second, is     *)
(* made with the agent resumed if the agent is resumed again and again.    *)
(* Nothing obliges the owner to call run, to pause, or to stop.            *)
(***************************************************************************)
FairSpecService ==
    SpecService /\ SF_vars(ServiceWhile) /\ WF_vars(ServiceStep)

(***************************************************************************)
(* C20: a call of run(max_steps) eventually returns the history unless     *)
(* the agent is left paused.                                               *)
(***************************************************************************)
C20_RunReturns ==
    \/ <>[](agent.pc # "constructed" /\ agent.paused)
    \/ [](agent.pc = "while" => <>(agent.pc = "returned"))

(***************************************************************************)
(* The child ids a raw element record lists that have a node: ids that     *)
(* are keys of the table with a record that is not null, in listed order.  *)
(***************************************************************************)
RECURSIVE PresentChildren(_, _)
PresentChildren(map, childrenIds) ==
    IF childrenIds = <<>> THEN <<>>
    ELSE IF Head(childrenIds) \in DOMAIN map /\ map[Head(childrenIds)].type # "null"
         THEN <<Head(childrenIds)>> \o PresentChildren(map, Tail(childrenIds))
         ELSE PresentChildren(map, Tail(childrenIds))

(***************************************************************************)
(* C21: for every raw table and every element record p, each id c of p's   *)
(* child-id list that is present in the table becomes a child of p's       *)
(* node, in listed order, with the parent of c set to p, whether the       *)
(* entry of c is visited before or after the entry of p.                   *)
(***************************************************************************)
C21_WiringOrderIndependent ==
    dom.status = "ok" =>
        \A p \in ElementsOf(dom) :
            LET listed == PresentChildren(evalPage[1].map, evalPage[1].map[p].children)
            IN /\ dom.nodeMap[p].children = listed
               /\ \A i \in 1 .. Len(listed) : dom.nodeMap[listed[i]].parent = Some(p)

(***************************************************************************)
(* C22: after a successful construction the set of selector-map values     *)
(* equals the set of elements with a highlightIndex reachable from the     *)
(* returned root: the elements of collect(root), plus the root itself      *)
(* when it carries a highlightIndex.                                       *)
(***************************************************************************)
C22_SelectorMapIsSurface ==
    dom.status = "ok" =>
        Range(dom.selectorMap) =
            Range(getClickableElements(dom, dom.root))
                \cup (IF dom.nodeMap[dom.root].highlightIndex # None
                      THEN {dom.root} ELSE {})

(***************************************************************************)
(* C23: when several nodes with a highlightIndex in the candidate tree     *)
(* have all three hash components equal to the record's, findInTree        *)
(* returns the one that precedes all the others in pre-order (a node       *)
(* before its descendants, the subtree of an earlier sibling before that   *)
(* of a later one); a node without highlightIndex is never returned, but   *)
(* a match below it is found; a second call with the same record and tree  *)
(* returns the same node.                                                  *)
(***************************************************************************)
C23_FindReturnsFirstMatch ==
    (IsOut("find") /\ "error" \notin DOMAIN out[1]) =>
        /\ RecordMatches = {} => out[1].result = None
        /\ RecordMatches # {} =>
            /\ out[1].result # None
            /\ out[1].result[1] \in RecordMatches
            /\ \A n \in RecordMatches \ {out[1].result[1]} :
                    PreorderBefore(dom, out[1].result[1], n)
        /\ out[1].result = findHistoryElementInTree(hist[1].rec, dom, dom.root)

C23_Witness ==
    /\ IsOut("find")
    /\ "error" \notin DOMAIN out[1]
    /\ Cardinality(RecordMatches) >= 2
    /\ out[1].result # None
    /\ \E n \in RecordMatches : PreorderBefore(dom, out[1].result[1], n)

C23_WitnessBelowPlain ==
    /\ IsOut("find")
    /\ "error" \notin DOMAIN out[1]
    /\ out[1].result # None
    /\ \E a \in AncestorsOrSelf(dom, out[1].result[1]) \ {dom.root, out[1].result[1]} :
            ~HasHighlight(dom, a)

(***************************************************************************)
(* The walks of the processors, one iteration or call at a time.  out      *)
(* holds the locals of the running operation: for _getParentBranchPath     *)
(* the array parents and currentElement, for getClickableElements the      *)
(* call stack (one frame [node, i] per active call, i the position of its  *)
(* loop over node.children) and the elements pushed so far.  An operation  *)
(* that has not returned after MaxWalk iterations, or nests its calls      *)
(* MaxDepth deep, is not followed further; both exceed what a tree of the  *)
(* model with distinct nodes on every path needs.                          *)
(***************************************************************************)
WalkIds == 2
MaxWalk == 4
MaxDepth == 4

WalkRecords(id) ==
    {RawNull, RawText("t")}
    \cup {RawElement(TagOf(id), XpathOf(id), AttrsOf(id), kids, hi) :
            kids \in SeqUpTo(0 .. (WalkIds - 1), MaxChildren),
            hi \in {None, Some(0)}}

WalkTables == TablesOver(WalkIds, [id \in 0 .. (WalkIds - 1) |-> WalkRecords(id)])

InitWalk == Init

CaptureWalk ==
    /\ evalPage = None
    /\ \E t \in WalkTables, r \in 0 .. (WalkIds - 1) :
        /\ evalPage' = Some([map |-> t, rootId |-> r])
        /\ dom' = constructDOMTree([map |-> t, rootId |-> r])
    /\ UNCHANGED <<hist, out, context, agent>>
    /\ UNCHANGED <<messageManager, memory, browser, controller>>

(***************************************************************************)
(* _getParentBranchPath(domElement) up to the test of its while loop.      *)
(***************************************************************************)
BranchPathCall ==
    /\ dom.status = "ok"
    /\ out = None
    /\ \E domElement \in ElementsOf(dom) :
        out' = Some([op |-> "_getParentBranchPath", done |-> FALSE,
                     domElement |-> domElement,
                     parents |-> <<>>, currentElement |-> domElement])
    /\ UNCHANGED <<evalPage, dom, hist, context, agent>>
    /\ UNCHANGED <<messageManager, memory, browser, controller>>

(***************************************************************************)
(* One test of while (currentElement.parent is defined) with the body of   *)
(* the loop, or with the return of the reversed tag names.                 *)
(***************************************************************************)
BranchPathLoop ==
    /\ IsOut("_getParentBranchPath")
    /\ ~out[1].done
    /\ Len(out[1].parents) < MaxWalk
    /\ out' =
        IF dom.nodeMap[out[1].currentElement].parent # None
        THEN Some([out[1] EXCEPT
                    !.parents = Append(@, out[1].currentElement),
                    !.currentElement = dom.nodeMap[out[1].currentElement].parent[1]])
        ELSE Some([op |-> "_getParentBranchPath", done |-> TRUE,
                   domElement |-> out[1].domElement,
                   result |-> [k \in 1 .. Len(out[1].parents) |->
                                 dom.nodeMap[Reverse(out[1].parents)[k]].tagName]])
    /\ UNCHANGED <<evalPage, dom, hist, context, agent>>
    /\ UNCHANGED <<messageManager, memory, browser, controller>>

(***************************************************************************)
(* getClickableElements(root): the outermost call.                         *)
(***************************************************************************)
CollectCall ==
    /\ dom.status = "ok"
    /\ out = None
    /\ out' = Some([op |-> "getClickableElements", done |-> FALSE,
                    stack |-> <<[node |-> dom.root, i |-> 1]>>,
                    clickableElements |-> <<>>])
    /\ UNCHANGED <<evalPage, dom, hist, context, agent>>
    /\ UNCHANGED <<messageManager, memory, browser, controller>>

(***************************************************************************)
(* One iteration of for (const child of domElement.children) in the        *)
(* innermost active call: the call returns when the list is exhausted, a   *)
(* text node is skipped, an element is pushed when it has a                *)
(* highlightIndex and the function is called on it.                        *)
(***************************************************************************)
CollectLoop ==
    /\ IsOut("getClickableElements")
    /\ ~out[1].done
    /\ LET stack == out[1].stack
           top == stack[Len(stack)]
           kids == dom.nodeMap[top.node].children
       IN IF top.i > Len(kids)
          THEN out' = IF Len(stack) = 1
                      THEN Some([op |-> "getClickableElements", done |-> TRUE,
                                 result |-> out[1].clickableElements])
                      ELSE Some([out[1] EXCEPT !.stack = SubSeq(stack, 1, Len(stack) - 1)])
          ELSE LET child == kids[top.i]
                   advanced == [stack EXCEPT ![Len(stack)].i = top.i + 1]
               IN IF dom.nodeMap[child].kind = "text"
                  THEN out' = Some([out[1] EXCEPT !.stack = advanced])
                  ELSE /\ Len(stack) < MaxDepth
                       /\ out' = Some([out[1] EXCEPT
                                !.stack = Append(advanced, [node |-> child, i |-> 1]),
                                !.clickableElements =
                                    IF dom.nodeMap[child].highlightIndex # None
                                    THEN Append(@, child) ELSE @])
    /\ UNCHANGED <<evalPage, dom, hist, context, agent>>
    /\ UNCHANGED <<messageManager, memory, browser, controller>>

NextWalk == CaptureWalk \/ BranchPathCall \/ BranchPathLoop \/ CollectCall \/ CollectLoop

SpecWalk == InitWalk /\ [][NextWalk]_vars

(***************************************************************************)
(* A call that has been made runs on: the next iteration of its loop is    *)
(* taken.                                                                  *)
(***************************************************************************)
FairSpecWalk == SpecWalk /\ WF_vars(BranchPathLoop) /\ WF_vars(CollectLoop)

MaxMessages == 3

estimateTokens(len) == (len + 3) \div 4

Message(role, kind, len) == [role |-> role, kind |-> kind, len |-> len]

_addMessageWithTokens(this, message) ==
    [this EXCEPT !.messages = Append(@, message),
                 !.current_tokens = @ + estimateTokens(message.len)]

(***************************************************************************)
(* new MessageManager(task, system_message, settings) without state: the   *)
(* system message and the task message.                                    *)
(***************************************************************************)
NewMessageManager(max_input_tokens) ==
    _addMessageWithTokens(
        _addMessageWithTokens(
            [pc |-> "idle", messages |-> <<>>, current_tokens |-> 0,
             max_input_tokens |-> max_input_tokens],
            Message("system", "system", 8)),
        Message("user", "task", 5))

(***************************************************************************)
(* addStateMessage: a message for the extracted content and for the error  *)
(* of every result that is to be included in memory, then the state        *)
(* message.                                                                *)
(***************************************************************************)
RECURSIVE AddResultMessages(_, _)
AddResultMessages(this, result) ==
    IF result = <<>> THEN this
    ELSE LET r == Head(result)
             m1 == IF r.include_in_memory /\ r.extracted_content
                   THEN _addMessageWithTokens(this, Message("user", "result", 4))
                   ELSE this
             m2 == IF r.include_in_memory /\ r.error
                   THEN _addMessageWithTokens(m1, Message("user", "error", 4))
                   ELSE m1
         IN AddResultMessages(m2, Tail(result))

addStateMessage(this, result) ==
    _addMessageWithTokens(AddResultMessages(this, result),
                          Message("user", "state", 8))

addModelOutput(this) == _addMessageWithTokens(this, Message("assistant", "output", 4))

addMessage(this, message) == _addMessageWithTokens(this, message)

(***************************************************************************)
(* removeLastStateMessage: pops the last message, whatever it is.          *)
(***************************************************************************)
removeLastStateMessage(this) ==
    IF Len(this.messages) > 0
    THEN [this EXCEPT
            !.messages = SubSeq(@, 1, Len(@) - 1),
            !.current_tokens =
                @ - estimateTokens(this.messages[Len(this.messages)].len)]
    ELSE this

(***************************************************************************)
(* Array.prototype.splice(position, 0, item) and splice(i, 1).             *)
(***************************************************************************)
SpliceIn(array, position, item) ==
    SubSeq(array, 1, position) \o <<item>> \o SubSeq(array, position + 1, Len(array))

SpliceOut(array, i) == SubSeq(array, 1, i) \o SubSeq(array, i + 2, Len(array))

(***************************************************************************)
(* addPlan(plan, position); positions count from 0.                        *)
(***************************************************************************)
addPlan(this, position) ==
    LET planMessage == Message("user", "plan", 4)
    IN IF position < 0 \/ position >= Len(this.messages)
       THEN _addMessageWithTokens(this, planMessage)
       ELSE [this EXCEPT !.messages = SpliceIn(@, position, planMessage),
                         !.current_tokens = @ + estimateTokens(planMessage.len)]

(***************************************************************************)
(* cutMessages: the test of the while loop, and one pass of its body,      *)
(* which removes the first message that is not a system message if there   *)
(* is one.                                                                 *)
(***************************************************************************)
CutMessagesTest(this) ==
    this.current_tokens > this.max_input_tokens /\ Len(this.messages) > 2

NonSystemPositions(this) ==
    {k \in 1 .. Len(this.messages) : this.messages[k].role # "system"}

CutMessagesBody(this) ==
    IF NonSystemPositions(this) = {} THEN this
    ELSE LET i == CHOOSE k \in NonSystemPositions(this) :
                        \A j \in NonSystemPositions(this) : k <= j
         IN [this EXCEPT
                !.messages = SpliceOut(@, i - 1),
                !.current_tokens = @ - estimateTokens(this.messages[i].len)]

(***************************************************************************)
(* Memory.createProceduralMemory up to await this.create(...): the system  *)
(* messages are kept, the other messages with content are to be            *)
(* processed.  The call returns at once when at most one message is to be  *)
(* processed.                                                              *)
(***************************************************************************)
RECURSIVE SelectMessages(_, _)
SelectMessages(messages, system) ==
    IF messages = <<>> THEN <<>>
    ELSE (IF system = (Head(messages).role = "system")
             /\ (system \/ Head(messages).len > 0)
          THEN <<Head(messages)>> ELSE <<>>)
         \o SelectMessages(Tail(messages), system)

RECURSIVE SumTokens(_)
SumTokens(messages) ==
    IF messages = <<>> THEN 0
    ELSE estimateTokens(Head(messages).len) + SumTokens(Tail(messages))

MemoryIdle == [pc |-> "idle"]

createProceduralMemoryCall(this) ==
    LET new_messages == SelectMessages(this.messages, TRUE)
        messages_to_process == SelectMessages(this.messages, FALSE)
    IN IF Len(messages_to_process) <= 1 THEN MemoryIdle
       ELSE [pc |-> "await", all_messages |-> this.messages,
             new_messages |-> new_messages,
             messages_to_process |-> messages_to_process]

(***************************************************************************)
(* createProceduralMemory after the await: the message list is replaced    *)
(* by the kept messages and the memory message, and current_tokens is      *)
(* adjusted by the tokens of the processed messages and of the memory      *)
(* message.                                                                *)
(***************************************************************************)
createProceduralMemoryResume(this, call) ==
    LET memory_message == Message("user", "memory", 8)
    IN [this EXCEPT
            !.messages = Append(call.new_messages, memory_message),
            !.current_tokens = (@ - SumTokens(call.messages_to_process))
                                    + estimateTokens(memory_message.len)]

(***************************************************************************)
(* The operations of a MessageManager and of the Memory that shares its    *)
(* history, called in any order.  cutMessages is synchronous: nothing      *)
(* else runs between two passes of its loop.  createProceduralMemory is    *)
(* asynchronous: any other operation may run while it awaits.  memory      *)
(* keeps the messages the call has read while it awaits; a behaviour holds *)
(* at most one replacement of the history, which bounds the drift of       *)
(* current_tokens.                                                         *)
(***************************************************************************)
MaxInputTokensValues == {5}
AddedMessages == {Message("system", "message", 5), Message("user", "message", 0)}

ActionResults ==
    {<<>>,
     <<[include_in_memory |-> TRUE, extracted_content |-> TRUE, error |-> FALSE]>>,
     <<[include_in_memory |-> TRUE, extracted_content |-> FALSE, error |-> TRUE]>>}

InitMessages ==
    /\ evalPage = None
    /\ dom = NoDom
    /\ hist = None
    /\ out = None
    /\ context = NewBrowserContext
    /\ agent = NoAgent
    /\ browser = NoObject
    /\ controller = NoObject
    /\ messageManager \in {NewMessageManager(t) : t \in MaxInputTokensValues}
    /\ memory = MemoryIdle

AddMessage ==
    /\ messageManager.pc = "idle"
    /\ Len(messageManager.messages) < MaxMessages
    /\ \E message \in AddedMessages :
        messageManager' = addMessage(messageManager, message)
    /\ UNCHANGED <<evalPage, dom, hist, out, context, agent, memory, browser, controller>>

AddStateMessage ==
    /\ messageManager.pc = "idle"
    /\ \E result \in ActionResults :
        /\ Len(addStateMessage(messageManager, result).messages) <= MaxMessages
        /\ messageManager' = addStateMessage(messageManager, result)
    /\ UNCHANGED <<evalPage, dom, hist, out, context, agent, memory, browser, controller>>

AddModelOutput ==
    /\ messageManager.pc = "idle"
    /\ Len(messageManager.messages) < MaxMessages
    /\ messageManager' = addModelOutput(messageManager)
    /\ UNCHANGED <<evalPage, dom, hist, out, context, agent, memory, browser, controller>>

AddPlan ==
    /\ messageManager.pc = "idle"
    /\ Len(messageManager.messages) < MaxMessages
    /\ \E position \in -1 .. MaxMessages :
        messageManager' = addPlan(messageManager, position)
    /\ UNCHANGED <<evalPage, dom, hist, out, context, agent, memory, browser, controller>>

RemoveLastStateMessage ==
    /\ messageManager.pc = "idle"
    /\ messageManager' = removeLastStateMessage(messageManager)
    /\ UNCHANGED <<evalPage, dom, hist, out, context, agent, memory, browser, controller>>

(***************************************************************************)
(* A call of cutMessages (directly or from getMessages), one pass of its   *)
(* loop at a time: the loop is left when its test fails.                   *)
(***************************************************************************)
CutMessages ==
    /\ messageManager.pc = "idle"
    /\ messageManager' = [messageManager EXCEPT !.pc = "cutMessages"]
    /\ UNCHANGED <<evalPage, dom, hist, out, context, agent, memory, browser, controller>>

CutMessagesLoop ==
    /\ messageManager.pc = "cutMessages"
    /\ messageManager' =
        IF CutMessagesTest(messageManager)
        THEN CutMessagesBody(messageManager)
        ELSE [messageManager EXCEPT !.pc = "idle"]
    /\ UNCHANGED <<evalPage, dom, hist, out, context, agent, memory, browser, controller>>

CreateProceduralMemory ==
    /\ messageManager.pc = "idle"
    /\ memory.pc = "idle"
    /\ memory' = createProceduralMemoryCall(messageManager)
    /\ UNCHANGED <<evalPage, dom, hist, out, context, agent, messageManager, browser, controller>>

(***************************************************************************)
(* The awaited this.create(...) has returned: without content the call     *)
(* returns, with content it replaces the history.                          *)
(***************************************************************************)
CreateProceduralMemoryResume ==
    /\ messageManager.pc = "idle"
    /\ agent.pc # "catch"
    /\ memory.pc = "await"
    /\ \E memory_content \in {"null", "content"} :
        IF memory_content = "null"
        THEN /\ memory' = MemoryIdle
             /\ UNCHANGED messageManager
        ELSE /\ messageManager' = createProceduralMemoryResume(messageManager, memory)
             /\ memory' = [pc |-> "done"]
    /\ UNCHANGED <<evalPage, dom, hist, out, context, agent, browser, controller>>

NextMessages ==
    AddMessage \/ AddStateMessage \/ AddModelOutput \/ AddPlan
        \/ RemoveLastStateMessage \/ CutMessages \/ CutMessagesLoop
        \/ CreateProceduralMemory \/ CreateProceduralMemoryResume

SpecMessages == InitMessages /\ [][NextMessages]_vars

(***************************************************************************)
(* C25: in every reachable state of the message history current_tokens is  *)
(* the sum of the token estimates of the messages held, and no message is  *)
(* silently lost: the list that createProceduralMemory replaces when it    *)
(* resumes holds no message but those the call had read.  This holds after *)
(* any sequence of the operations and under any interleaving with          *)
(* createProceduralMemory.                                                 *)
(***************************************************************************)
C25_TokensAndMessagesKept ==
    /\ [](messageManager.pc # "none" =>
            messageManager.current_tokens = SumTokens(messageManager.messages))
    /\ [][(memory.pc = "await" /\ memory'.pc = "done") =>
            IsSubsequence(messageManager.messages, memory.all_messages)]_vars

(***************************************************************************)
(* cutMessages runs to its end once called: its loop is taken again as     *)
(* long as its test holds.                                                 *)
(***************************************************************************)
FairSpecMessages == SpecMessages /\ WF_vars(CutMessagesLoop)

FirstNonSystem(messages) ==
    CHOOSE i \in 1 .. Len(messages) :
        /\ messages[i].role # "system"
        /\ \A j \in 1 .. (i - 1) : messages[j].role = "system"

(***************************************************************************)
(* C26: cutMessages terminates for every message history; each message it  *)
(* removes is the oldest non-system message; and when it returns either    *)
(* current_tokens <= max_input_tokens or at most two messages remain.      *)
(***************************************************************************)
C26_CutMessagesTerminates ==
    /\ (messageManager.pc = "cutMessages") ~> (messageManager.pc = "idle")
    /\ [][(messageManager.pc = "cutMessages"
                /\ messageManager'.messages # messageManager.messages) =>
            /\ \E i \in 1 .. Len(messageManager.messages) :
                    messageManager.messages[i].role # "system"
            /\ messageManager'.messages =
                    SpliceOut(messageManager.messages,
                              FirstNonSystem(messageManager.messages) - 1)]_vars
    /\ [][(messageManager.pc = "cutMessages" /\ messageManager'.pc = "idle") =>
            \/ messageManager'.current_tokens <= messageManager'.max_input_tokens
            \/ Len(messageManager'.messages) <= 2]_vars

(***************************************************************************)
(* cutMessages run to its end, on a history from which it returns.         *)
(***************************************************************************)
RECURSIVE cutMessages(_)
cutMessages(this) ==
    IF CutMessagesTest(this) /\ NonSystemPositions(this) # {}
    THEN cutMessages(CutMessagesBody(this))
    ELSE this

(***************************************************************************)
(* The Agent of agent/index.ts with its MessageManager and its Memory.     *)
(* Next to the fields of the stub above, agent carries                     *)
(* consecutive_failures, settings.max_failures, whether a planner_llm is   *)
(* set (planner_interval is 1), enable_memory, last_result (a list of      *)
(* ActionResult, empty for null, which run and step do not tell from []),  *)
(* the number of calls of pause (pauses), and of step its local            *)
(* input_messages and the error it has caught.  step is divided at its     *)
(* awaits: "step" at its start, "llm" at await this._getNextAction, "act"  *)
(* after removeLastStateMessage, and "catch" at its outer catch.  The      *)
(* registry has no page-specific actions, and an injected state carries    *)
(* an empty message history.                                               *)
(***************************************************************************)
MaxFailures == 2
MaxPauses == 1
MaxRunSteps == 3
SettingsMaxInputTokens == 505

ActionResult(is_done, extracted_content, error, include_in_memory) ==
    [is_done |-> is_done, extracted_content |-> extracted_content,
     error |-> error, include_in_memory |-> include_in_memory]

NewState == [n_steps |-> 1, consecutive_failures |-> 0, paused |-> FALSE,
             stopped |-> FALSE, last_result |-> <<>>]

InjectedStates ==
    [n_steps : 0 .. 1, consecutive_failures : {0, MaxFailures},
     paused : {FALSE}, stopped : {FALSE}, last_result : {<<>>}]

Constructed(state, max_failures, planner_llm, enable_memory) ==
    [pc |-> "constructed", n_steps |-> state.n_steps,
     consecutive_failures |-> state.consecutive_failures,
     paused |-> state.paused, stopped |-> state.stopped,
     last_result |-> state.last_result, max_failures |-> max_failures,
     planner_llm |-> planner_llm, enable_memory |-> enable_memory,
     max_steps |-> 0, calls |-> 0, pauses |-> 0,
     input_messages |-> <<>>, error |-> "none"]

InitAgent ==
    /\ evalPage = None
    /\ dom = NoDom
    /\ hist = None
    /\ out = None
    /\ context = NewBrowserContext
    /\ browser = NoObject
    /\ controller = NoObject
    /\ messageManager = NewMessageManager(SettingsMaxInputTokens)
    /\ \E st \in {NewState} \cup InjectedStates,
          planner_llm \in BOOLEAN, enable_memory \in BOOLEAN :
        /\ agent = Constructed(st, MaxFailures, planner_llm, enable_memory)
        /\ memory = IF enable_memory THEN MemoryIdle ELSE NoObject

(***************************************************************************)
(* Agent.run(max_steps) up to the loop.                                    *)
(***************************************************************************)
Run ==
    /\ agent.pc = "constructed"
    /\ \E max_steps \in 0 .. MaxRunSteps :
        agent' = [agent EXCEPT !.paused = FALSE, !.stopped = FALSE,
                               !.max_steps = max_steps, !.pc = "while"]
    /\ UNCHANGED <<evalPage, dom, hist, out, context>>
    /\ UNCHANGED <<messageManager, memory, browser, controller>>

(***************************************************************************)
(* One test of while (n_steps < max_steps && !stopped), with the paused    *)
(* branch and the call of step.                                            *)
(***************************************************************************)
While ==
    /\ agent.pc = "while"
    /\ agent' =
        IF ~(agent.n_steps < agent.max_steps /\ ~agent.stopped)
        THEN [agent EXCEPT !.pc = "returned"]
        ELSE IF agent.paused THEN agent
        ELSE [agent EXCEPT !.pc = "step",
                           !.calls = IF @ < MaxCalls THEN @ + 1 ELSE @]
    /\ UNCHANGED <<evalPage, dom, hist, out, context>>
    /\ UNCHANGED <<messageManager, memory, browser, controller>>

is_done(result) == result # <<>> /\ result[Len(result)].is_done

(***************************************************************************)
(* The loop body of run after step has returned: break on a done result,   *)
(* break on max_failures consecutive failures, else test the loop again.   *)
(***************************************************************************)
AfterStep(a) ==
    [a EXCEPT !.pc = IF is_done(a.last_result) THEN "returned"
                     ELSE IF a.consecutive_failures >= a.max_failures THEN "returned"
                     ELSE "while",
              !.input_messages = <<>>,
              !.error = "none"]

(***************************************************************************)
(* The catch of step: an interruption by _raiseIfStoppedOrPaused stores    *)
(* the interrupted result and returns; any other error goes to             *)
(* _handleStepError, which counts a consecutive failure and returns the    *)
(* error as a result ('Browser closed' as one that is not included in      *)
(* memory); on 'Max token limit reached' it lowers max_input_tokens of     *)
(* the message manager and cuts the history.                               *)
(***************************************************************************)
ErrorKinds == {"Error", "Max token limit reached"}
PausedOrStopped == "Agent paused or stopped"

Interrupted(a) ==
    AfterStep([a EXCEPT !.last_result = <<ActionResult(FALSE, FALSE, TRUE, FALSE)>>])

_handleStepError(a) ==
    AfterStep([a EXCEPT
        !.consecutive_failures = @ + 1,
        !.last_result = <<ActionResult(FALSE, FALSE, TRUE, a.error # "Browser closed")>>])

_handleStepErrorMessages(this, error) ==
    IF error = "Max token limit reached"
    THEN cutMessages([this EXCEPT !.max_input_tokens = SettingsMaxInputTokens - 500])
    ELSE this

is_last_step(step_number, max_steps) == step_number >= max_steps - 1

(***************************************************************************)
(* step up to await this._getNextAction: _getBrowserState may throw; the   *)
(* call of createProceduralMemory, which is not awaited (the model         *)
(* follows the runs in which the call of the step before has resumed);     *)
(* the first _raiseIfStoppedOrPaused; addStateMessage with the last        *)
(* result; the plan of the planner, if it gives one; the last-step         *)
(* warning; getMessages.                                                   *)
(***************************************************************************)
StepBegin ==
    /\ agent.pc = "step"
    /\ agent.enable_memory => memory.pc # "await"
    /\ \E throws \in {"none", "Error"}, plan \in BOOLEAN :
        IF throws # "none"
        THEN /\ agent' = [agent EXCEPT !.pc = "catch", !.error = throws]
             /\ UNCHANGED <<messageManager, memory>>
        ELSE /\ memory' = IF agent.enable_memory
                          THEN createProceduralMemoryCall(messageManager)
                          ELSE memory
             /\ IF agent.stopped \/ agent.paused
                THEN /\ agent' = [agent EXCEPT !.pc = "catch", !.error = PausedOrStopped]
                     /\ UNCHANGED messageManager
                ELSE LET m1 == addStateMessage(messageManager, agent.last_result)
                         m2 == IF agent.planner_llm /\ plan THEN addPlan(m1, -1) ELSE m1
                         m3 == IF is_last_step(agent.n_steps, agent.max_steps)
                               THEN addMessage(m2, Message("user", "warning", 4))
                               ELSE m2
                         m4 == cutMessages(m3)
                     IN /\ messageManager' = m4
                        /\ agent' = [agent EXCEPT !.pc = "llm",
                                                  !.input_messages = m4.messages]
    /\ UNCHANGED <<evalPage, dom, hist, out, context, browser, controller>>

(***************************************************************************)
(* _getNextAction returns or throws; the second _raiseIfStoppedOrPaused;   *)
(* n_steps += 1; removeLastStateMessage, which the inner catch calls as    *)
(* well before it throws the error again.                                  *)
(***************************************************************************)
StepNextAction ==
    /\ agent.pc = "llm"
    /\ \E throws \in {"none"} \cup ErrorKinds :
        agent' = IF throws # "none"
                 THEN [agent EXCEPT !.pc = "catch", !.error = throws]
                 ELSE IF agent.stopped \/ agent.paused
                 THEN [agent EXCEPT !.pc = "catch", !.error = PausedOrStopped]
                 ELSE [agent EXCEPT !.n_steps = @ + 1, !.pc = "act"]
    /\ messageManager' = removeLastStateMessage(messageManager)
    /\ UNCHANGED <<evalPage, dom, hist, out, context, memory, browser, controller>>

(***************************************************************************)
(* The third _raiseIfStoppedOrPaused, which throws into the inner catch    *)
(* and its removeLastStateMessage; else addModelOutput and _multiAct,      *)
(* which returns the results of the actions, each included in memory (an   *)
(* action that fails gives a result with error, not a throw), and          *)
(* consecutive_failures = 0; reading model_output.action may throw.        *)
(***************************************************************************)
MultiActResults ==
    {<<ActionResult(FALSE, FALSE, FALSE, TRUE)>>,
     <<ActionResult(FALSE, FALSE, TRUE, TRUE)>>,
     <<ActionResult(TRUE, TRUE, FALSE, TRUE)>>}

StepMultiAct ==
    /\ agent.pc = "act"
    /\ IF agent.stopped \/ agent.paused
       THEN /\ messageManager' = removeLastStateMessage(messageManager)
            /\ agent' = [agent EXCEPT !.pc = "catch", !.error = PausedOrStopped]
       ELSE /\ messageManager' = addModelOutput(messageManager)
            /\ \/ agent' = [agent EXCEPT !.pc = "catch", !.error = "Error"]
               \/ \E result \in MultiActResults :
                    agent' = AfterStep([agent EXCEPT !.last_result = result,
                                                     !.consecutive_failures = 0])
    /\ UNCHANGED <<evalPage, dom, hist, out, context, memory, browser, controller>>

(***************************************************************************)
(* The outer catch of step, and the return of step to run.                 *)
(***************************************************************************)
StepCatch ==
    /\ agent.pc = "catch"
    /\ IF agent.error = PausedOrStopped
       THEN /\ agent' = Interrupted(agent)
            /\ UNCHANGED messageManager
       ELSE /\ agent' = _handleStepError(agent)
            /\ messageManager' = _handleStepErrorMessages(messageManager, agent.error)
    /\ UNCHANGED <<evalPage, dom, hist, out, context, memory, browser, controller>>

(***************************************************************************)
(* Agent.pause, Agent.resume and Agent.stop, called by the owner of the    *)
(* agent while run is awaiting; the owner pauses at most MaxPauses times.  *)
(***************************************************************************)
Pause ==
    /\ agent.pc \in {"while", "step", "llm", "act"}
    /\ agent.pauses < MaxPauses
    /\ agent' = [agent EXCEPT !.paused = TRUE, !.pauses = @ + 1]
    /\ UNCHANGED <<evalPage, dom, hist, out, context>>
    /\ UNCHANGED <<messageManager, memory, browser, controller>>

Resume ==
    /\ agent.pc \in {"while", "step", "llm", "act"}
    /\ agent' = [agent EXCEPT !.paused = FALSE]
    /\ UNCHANGED <<evalPage, dom, hist, out, context>>
    /\ UNCHANGED <<messageManager, memory, browser, controller>>

Stop ==
    /\ agent.pc \in {"while", "step", "llm", "act"}
    /\ agent' = [agent EXCEPT !.stopped = TRUE]
    /\ UNCHANGED <<evalPage, dom, hist, out, context>>
    /\ UNCHANGED <<messageManager, memory, browser, controller>>

NextAgent ==
    Run \/ While \/ StepBegin \/ StepNextAction \/ StepMultiAct \/ StepCatch
        \/ Pause \/ Resume \/ Stop \/ CreateProceduralMemoryResume

SpecAgent == InitAgent /\ [][NextAgent]_vars

FairSpecAgent ==
    SpecAgent /\ SF_vars(While) /\ WF_vars(StepBegin)
        /\ WF_vars(StepNextAction) /\ WF_vars(StepMultiAct)
        /\ WF_vars(StepCatch) /\ WF_vars(CreateProceduralMemoryResume)

(***************************************************************************)
(* A message list without its last state message.                          *)
(***************************************************************************)
StatePositions(messages) == {k \in 1 .. Len(messages) : messages[k].kind = "state"}

WithoutLastState(messages) ==
    IF StatePositions(messages) = {} THEN messages
    ELSE LET i == CHOOSE k \in StatePositions(messages) :
                        \A j \in StatePositions(messages) : j <= k
         IN SpliceOut(messages, i - 1)

(***************************************************************************)
(* C27: in every step, the removeLastStateMessage that follows the LLM     *)
(* call removes the state message that addStateMessage added in that       *)
(* step: the history it leaves is the history the LLM was called with      *)
(* (input_messages) without that state message, so that a plan message or  *)
(* last-step warning added after it, and the messages of earlier steps,    *)
(* are still present.                                                      *)
(***************************************************************************)
C27_StateMessageRemoved ==
    [][(agent.pc = "llm" /\ agent'.pc # "llm") =>
            messageManager'.messages = WithoutLastState(agent.input_messages)]_vars

(***************************************************************************)
(* The model outputs held by a message history.                            *)
(***************************************************************************)
IsModelOutput(message) == message.role = "assistant"

ModelOutputs(messages) == SelectSeq(messages, IsModelOutput)

MaxEntryCalls == 2

EntryPoints ==
    {"Browser.getContext", "Browser.getCurrentPage", "Browser.getState",
     "Browser.navigateTo", "Browser.getPlaywrightBrowser"}

NewBrowser ==
    [pc |-> "constructed", playwrightBrowser |-> 0, context |-> FALSE, page |-> 0,
     playwrightContext |-> 0, currentPage |-> 0,
     launches |-> 0, contexts |-> 0, pages |-> <<>>,
     tasks |-> <<>>, results |-> <<>>, running |-> 0]

Frame(fn) == [fn |-> fn, pc |-> 0, ret |-> 0, ctx |-> 0]

Top(b, t) == b.tasks[t][Len(b.tasks[t])]

(***************************************************************************)
(* The top frame of call t moves to pc; Await calls fn next; Yield awaits  *)
(* Playwright; Return gives v to the caller, or ends the call.             *)
(***************************************************************************)
Goto(b, t, pc) == [b EXCEPT !.tasks[t][Len(b.tasks[t])].pc = pc]

Await(b, t, pc, fn) ==
    [b EXCEPT !.tasks[t] = Append([@ EXCEPT ![Len(@)].pc = pc], Frame(fn))]

Yield(b, t, pc) == [Goto(b, t, pc) EXCEPT !.running = 0]

Return(b, t, v) ==
    IF Len(b.tasks[t]) = 1
    THEN [b EXCEPT !.tasks[t] = <<>>, !.results[t] = v, !.running = 0]
    ELSE [b EXCEPT !.tasks[t] =
            [SubSeq(@, 1, Len(@) - 1) EXCEPT ![Len(@) - 1].ret = v]]

PagesOf(b, ctx) == {p \in 1 .. Len(b.pages) : b.pages[p] = ctx}

FirstPage(b, ctx) ==
    CHOOSE p \in PagesOf(b, ctx) : \A q \in PagesOf(b, ctx) : p <= q

Browser_init(b, t, f) ==
    CASE f.pc = 0 ->
            IF b.playwrightBrowser # 0 THEN Return(b, t, 0)
            ELSE Yield(b, t, 1)
      [] f.pc = 1 ->
            LET b1 == [b EXCEPT !.launches = @ + 1, !.playwrightBrowser = b.launches + 1]
            IN IF ~b1.context
               THEN Await([b1 EXCEPT !.context = TRUE], t, 2,
                          "BrowserContext.initializeSession")
               ELSE Goto(b1, t, 2)
      [] f.pc = 2 -> Await(b, t, 3, "Browser.getCurrentPage")
      [] OTHER -> Return([b EXCEPT !.page = f.ret], t, 0)

Browser_getContext(b, t, f) ==
    CASE f.pc = 0 ->
            IF ~b.context
            THEN Await([b EXCEPT !.context = TRUE], t, 1,
                       "BrowserContext.initializeSession")
            ELSE Return(b, t, 0)
      [] OTHER -> Return(b, t, 0)

Browser_getCurrentPage(b, t, f) ==
    CASE f.pc = 0 ->
            IF b.page = 0 THEN Await(b, t, 1, "Browser.getContext")
            ELSE Return(b, t, b.page)
      [] f.pc = 1 -> Await(b, t, 2, "BrowserContext.getCurrentPage")
      [] OTHER -> Return([b EXCEPT !.page = f.ret], t, f.ret)

(***************************************************************************)
(* Browser.getState and Browser.navigateTo: getContext, then the method    *)
(* of the context, which begins with its getCurrentPage and works on the   *)
(* page it returns.                                                        *)
(***************************************************************************)
Browser_viaContext(b, t, f) ==
    CASE f.pc = 0 -> Await(b, t, 1, "Browser.getContext")
      [] f.pc = 1 -> Await(b, t, 2, "BrowserContext.getCurrentPage")
      [] OTHER -> Return(b, t, f.ret)

Browser_getPlaywrightBrowser(b, t, f) ==
    CASE f.pc = 0 -> Await(b, t, 1, "Browser._init")
      [] OTHER -> Return(b, t, b.playwrightBrowser)

BrowserContext_getCurrentPage(b, t, f) ==
    CASE f.pc = 0 ->
            IF b.currentPage = 0 THEN Await(b, t, 1, "BrowserContext.getContext")
            ELSE Return(b, t, b.currentPage)
      [] OTHER ->
            LET b1 == IF f.ret # 0 /\ PagesOf(b, f.ret) # {}
                      THEN [b EXCEPT !.currentPage = FirstPage(b, f.ret)]
                      ELSE b
            IN Return(b1, t, b1.currentPage)

BrowserContext_getContext(b, t, f) ==
    CASE f.pc = 0 ->
            IF b.playwrightContext = 0
            THEN Await(b, t, 1, "BrowserContext.initializeSession")
            ELSE Return(b, t, b.playwrightContext)
      [] OTHER -> Return(b, t, b.playwrightContext)

initializeSession(b, t, f) ==
    CASE f.pc = 0 -> Await(b, t, 1, "Browser.getPlaywrightBrowser")
      [] f.pc = 1 -> Yield(b, t, 2)
      [] f.pc = 2 ->
            LET created == b.contexts + 1
                b1 == [b EXCEPT !.contexts = created, !.playwrightContext = created]
            IN IF PagesOf(b1, created) # {}
               THEN Return([b1 EXCEPT !.currentPage = FirstPage(b1, created)], t, 0)
               ELSE Yield([b1 EXCEPT !.tasks[t][Len(b.tasks[t])].ctx = created], t, 3)
      [] OTHER ->
            Return([b EXCEPT !.pages = Append(@, f.ctx),
                             !.currentPage = Len(b.pages) + 1], t, 0)

StepFrame(b, t) ==
    LET f == Top(b, t)
    IN CASE f.fn = "Browser._init" -> Browser_init(b, t, f)
         [] f.fn = "Browser.getContext" -> Browser_getContext(b, t, f)
         [] f.fn = "Browser.getCurrentPage" -> Browser_getCurrentPage(b, t, f)
         [] f.fn \in {"Browser.getState", "Browser.navigateTo"} -> Browser_viaContext(b, t, f)
         [] f.fn = "Browser.getPlaywrightBrowser" -> Browser_getPlaywrightBrowser(b, t, f)
         [] f.fn = "BrowserContext.getCurrentPage" -> BrowserContext_getCurrentPage(b, t, f)
         [] f.fn = "BrowserContext.getContext" -> BrowserContext_getContext(b, t, f)
         [] OTHER -> initializeSession(b, t, f)

InitBrowser ==
    /\ evalPage = None
    /\ dom = NoDom
    /\ hist = None
    /\ out = None
    /\ context = NewBrowserContext
    /\ agent = NoAgent
    /\ messageManager = NoObject
    /\ memory = NoObject
    /\ controller = NoObject
    /\ browser = NewBrowser

(***************************************************************************)
(* A public entry point of the Browser is called.                          *)
(***************************************************************************)
BrowserCall ==
    /\ browser.pc = "constructed"
    /\ browser.running = 0
    /\ Len(browser.tasks) < MaxEntryCalls
    /\ \E fn \in EntryPoints :
        browser' = [browser EXCEPT !.tasks = Append(@, <<Frame(fn)>>),
                                   !.results = Append(@, 0),
                                   !.running = Len(browser.tasks) + 1]
    /\ UNCHANGED <<evalPage, dom, hist, out, context, agent, messageManager, memory, controller>>

(***************************************************************************)
(* The call that is running, or, when none is, a call whose awaited        *)
(* Playwright operation has completed, goes on by one position.            *)
(***************************************************************************)
BrowserStep ==
    /\ browser.pc = "constructed"
    /\ \E t \in 1 .. Len(browser.tasks) :
        /\ browser.tasks[t] # <<>>
        /\ browser.running \in {0, t}
        /\ browser' = StepFrame([browser EXCEPT !.running = t], t)
    /\ UNCHANGED <<evalPage, dom, hist, out, context, agent, messageManager, memory, controller>>

NextBrowser == BrowserCall \/ BrowserStep

SpecBrowser == InitBrowser /\ [][NextBrowser]_vars

(***************************************************************************)
(* C29: once the Browser has been initialised through its public entry     *)
(* points, in any order, and no call is pending, exactly one Playwright    *)
(* context has been created for its BrowserContext, and the page of        *)
(* Browser.getCurrentPage() is the page of                                 *)
(* BrowserContext.getCurrentPage().                                        *)
(***************************************************************************)
Initialised(b) ==
    /\ b.pc = "constructed"
    /\ b.tasks # <<>>
    /\ \A t \in 1 .. Len(b.tasks) : b.tasks[t] = <<>>

C29_OneContextOnePage ==
    Initialised(browser) =>
        /\ browser.contexts = 1
        /\ browser.page # 0
        /\ browser.page = browser.currentPage

(***************************************************************************)
(* controller/controller.ts and controller/registry.ts: the Controller and *)
(* its ActionRegistry.  An action function is kept as "fn" followed by the  *)
(* ordinal of its registration; what a call of it does (the result it      *)
(* resolves to, or the value it throws or rejects with) is chosen when it  *)
(* is called.                                                              *)
(***************************************************************************)
MaxRegistered == 2

NumDefaultActions == 8

FunctionNames == {"", "click", "done"}

ActionTypes ==
    {"action_0", "action_7", "action_8", "click", "done", "go_to_url",
     "constructor"}

InheritedKeys == {"constructor", "toString"}

Digits(n) ==
    IF n < 10 THEN <<"0", "1", "2", "3", "4", "5", "6", "7", "8", "9">>[n + 1]
    ELSE "many"

ErrorOf(message) == [type |-> "Error", message |-> message]

ThrownValues ==
    {ErrorOf("Element not found"), ErrorOf(""),
     [type |-> "string", message |-> "timeout"],
     [type |-> "object", message |-> JsUndefined]}

ActionOutcomes ==
    {[kind |-> "returns", value |-> ActionResult(TRUE, "text", JsUndefined, TRUE)],
     [kind |-> "returns", value |-> ActionResult(JsUndefined, "text", JsUndefined, FALSE)]}
    \cup {[kind |-> "throws", value |-> v] : v \in ThrownValues}

Resolved(value) == [state |-> "resolved", value |-> value]

Rejected(value) == [state |-> "rejected", value |-> value]

(* String(value): the text of a string; a TypeError for an object that has *)
(* neither toString nor valueOf.                                           *)
String(value) ==
    IF value.type = "object"
    THEN [kind |-> "throws", value |-> ErrorOf("Cannot convert object to primitive value")]
    ELSE [kind |-> "returns", value |-> value.message]

(* ActionRegistry.action: name = fn.name || `action_${number of keys}`. *)
action(actions, fn) ==
    LET name == IF fn.name # "" THEN fn.name
                ELSE "action_" \o Digits(Cardinality(DOMAIN actions))
    IN  [k \in DOMAIN actions \cup {name} |->
            IF k = name THEN [name |-> name, function |-> "fn" \o Digits(fn.id)]
            ELSE actions[k]]

(* ActionRegistry.getAction: `actionName in this.actions` also holds for   *)
(* the keys inherited from Object.prototype, whose value has no function.  *)
getAction(actions, actionName) ==
    IF actionName \in DOMAIN actions THEN actions[actionName].function
    ELSE IF actionName \in InheritedKeys THEN JsUndefined
    ELSE JsNull

RECURSIVE _registerDefaultActions(_, _)
_registerDefaultActions(actions, n) ==
    IF n = NumDefaultActions THEN actions
    ELSE _registerDefaultActions(action(actions, [name |-> "", id |-> n]), n + 1)

NewController ==
    [pc |-> "constructed",
     actions |-> _registerDefaultActions(<<>>, 0),
     registered |-> NumDefaultActions]

(* The catch block of executeAction. *)
executeActionCatch(error) ==
    IF error.type = "Error"
    THEN Resolved(ActionResult(JsUndefined, JsUndefined, error.message, TRUE))
    ELSE LET text == String(error)
         IN  IF text.kind = "throws" THEN Rejected(text.value)
             ELSE Resolved(ActionResult(JsUndefined, JsUndefined, text.value, TRUE))

executeAction(actions, actionType, outcome) ==
    LET actionExecutor == getAction(actions, actionType)
    IN  IF actionExecutor \in {JsNull, JsUndefined}
        THEN executeActionCatch(ErrorOf("Unknown action type: " \o actionType))
        ELSE IF outcome.kind = "returns" THEN Resolved(outcome.value)
        ELSE executeActionCatch(outcome.value)

InitController ==
    /\ evalPage = None
    /\ dom = NoDom
    /\ hist = None
    /\ out = None
    /\ context = NewBrowserContext
    /\ agent = NoAgent
    /\ messageManager = NoObject
    /\ memory = NoObject
    /\ browser = NoObject
    /\ controller = NewController

(***************************************************************************)
(* controller.registry.action(description, fn, ...) is called with a       *)
(* function of some name.                                                  *)
(***************************************************************************)
RegisterAction ==
    /\ controller.pc = "constructed"
    /\ controller.registered < NumDefaultActions + MaxRegistered
    /\ \E name \in FunctionNames :
        controller' =
            [controller EXCEPT
                !.actions = action(@, [name |-> name, id |-> controller.registered]),
                !.registered = @ + 1]
    /\ out' = None
    /\ UNCHANGED <<evalPage, dom, hist, context, agent, messageManager, memory, browser>>

(***************************************************************************)
(* controller.executeAction(actionType, params, browser) is called and     *)
(* settles.                                                                *)
(***************************************************************************)
ExecuteAction ==
    /\ controller.pc = "constructed"
    /\ \E actionType \in ActionTypes, outcome \in ActionOutcomes :
        out' = Some([op |-> "executeAction", actionType |-> actionType,
                     called |-> getAction(controller.actions, actionType),
                     outcome |-> outcome,
                     result |-> executeAction(controller.actions, actionType, outcome)])
    /\ UNCHANGED <<evalPage, dom, hist, context, agent, messageManager, memory,
                   browser, controller>>

NextController == RegisterAction \/ ExecuteAction

SpecController == InitController /\ [][NextController]_vars

(***************************************************************************)
(* C30: Controller.executeAction never rejects: for an action type that is *)
(* not in the registry, or an action function that throws, it resolves to  *)
(* an ActionResult whose error field is set and whose include_in_memory is *)
(* true; for a registered action that completes it resolves to exactly     *)
(* that action's result; and it leaves the registry unchanged.             *)
(***************************************************************************)
C30_ExecuteActionNeverRejects ==
    /\ [](IsOut("executeAction") =>
            LET o == out[1]
                registered == o.actionType \in DOMAIN controller.actions
            IN  /\ o.result.state = "resolved"
                /\ (~registered \/ o.outcome.kind = "throws") =>
                        /\ o.result.value.error # JsUndefined
                        /\ o.result.value.include_in_memory = TRUE
                /\ (registered /\ o.outcome.kind = "returns") =>
                        o.result.value = o.outcome.value)
    /\ [][IsOut("executeAction")' => controller'.actions = controller.actions]_vars

====
